---- MODULE Spec2Model ----
(***************************************************************************)
(* A model of the Phaser Isometric plug-in: the Octree broad phase, the    *)
(* Projector's topological depth sort and the IsoArcade physics (Body and  *)
(* Arcade world).                                                          *)
(*                                                                         *)
(* Numbers.  The program computes with JavaScript doubles.  The model      *)
(* keeps every coordinate, extent and velocity as an integer count of      *)
(* sub-units, Unit sub-units making one world unit.  Unit is a power of    *)
(* two large enough that every halving the modelled runs perform is        *)
(* exact, so that the integer arithmetic below agrees with the doubles.    *)
(***************************************************************************)
EXTENDS Integers, Sequences, FiniteSets, TLC

----------------------------------------------------------------------------
(* Bounds of the model *)

\* Number of separations that halve an overlap which one run may perform
MaxHalvings == 2

\* Sub-units per world unit
Unit == 2 ^ MaxHalvings

\* Number of boxes inserted into the Octree between two clears
MaxInserts == 3

\* Number of sprites handed to the depth sort
NSprites == 3

\* Number of times a sprite is moved between depth sorts in one run
MaxMoves == 1

\* Number of sprites with a physics body
NBodies == 3

\* Number of preUpdate calls a body gets in one run
MaxTicks == 1

\* Number of collide and overlap calls in one run
MaxCalls == 2

\* Number of direct separate, separateX, separateY and separateZ calls in
\* one run
MaxSeparations == 1

\* Depth of nested Octree#insert calls at which the call stack is taken
\* to be exhausted (see Insert)
StackLimit == 6

\* Number of updateMotion calls in one run
MaxMotions == 2

\* Number of frames of the stage in one run, where frame follows frame
MaxFrames == 2

\* Largest coordinate an edge of the Cube is set to
MaxEdge == 2

\* Largest coordinate of a point given to Projector#project
MaxCoordinate == 2

----------------------------------------------------------------------------
(* State *)

\* The Octree of the Arcade world
VARIABLES octree,     \* [nodes: path -> node, overflow: BOOLEAN]
          cubes,      \* the boxes inserted since the last clear, by id
          retrieved   \* the last retrieve: its query box and its result

octreeVars == <<octree, cubes, retrieved>>

\* The sprites handed to Projector#topologicalSort
VARIABLES isoSprite,  \* sprite id -> [pos, bounds, isoSpritesBehind,
                      \*               isoVisitedFlag, isoDepth]
          children,   \* the sprites in the order of the group's child list
          sorted      \* what the last topologicalSort call recorded

sortVars == <<isoSprite, children, sorted>>

\* The IsoArcade physics
VARIABLES sprite,     \* sprite id -> the owner of a body: iso position, size
          bodies,     \* sprite id -> the fields of sprite.body
          world,      \* the fields of game.physics.isoArcade
          game,       \* what the game passes to collide and overlap
          step,       \* sprite id -> preUpdate calls so far, postUpdate
                      \* calls since the last preUpdate
          call        \* the record of the last call

physVars == <<sprite, bodies, world, game, step, call>>

\* A Cube and a Projector of their own
VARIABLES solid,      \* the fields of a Cube: x, y, z, widthX, widthY, height
          projector,  \* the fields of a Projector, and of the game.world it reads
          probe       \* the record of the last Cube or Projector call

geomVars == <<solid, projector, probe>>

----------------------------------------------------------------------------
(* Arithmetic helpers *)

Abs(v) == IF v < 0 THEN -v ELSE v

\* Math.floor(v * 0.5) of a value given in sub-units
FloorHalf(v) == (v \div (2 * Unit)) * Unit

\* Math.round(v) of a value given in sub-units (rounds half up)
Round(v) == ((2 * v + Unit) \div (2 * Unit)) * Unit

\* The world bounds the Arcade constructor builds
WorldSize == 8 * Unit

Bounds == [x |-> 0, y |-> 0, z |-> 0,
           widthX |-> WorldSize, widthY |-> WorldSize, height |-> WorldSize]

----------------------------------------------------------------------------
(* Octree *)

\* A box as the Octree reads it: x, y, z, frontX, frontY, top
MkCube(x, y, z, wx, wy, h) ==
    [x |-> x, y |-> y, z |-> z, widthX |-> wx, widthY |-> wy, height |-> h,
     frontX |-> x + wx, frontY |-> y + wy, top |-> z + h]

\* Cube.containsCube(a, b): a lies inside b
CubeContainsCube(a, b) ==
    IF a.widthX * a.widthY * a.height > b.widthX * b.widthY * b.height THEN FALSE
    ELSE a.x >= b.x /\ a.y >= b.y /\ a.z >= b.z
         /\ a.frontX <= b.frontX /\ a.frontY <= b.frontY /\ a.top <= b.top

\* Cube.intersects(a, b) that looks at the extents of a alone and only at
\* the front faces of a
CubeIntersectsFrontOnly(a, b) ==
    IF a.widthX <= 0 \/ a.widthY <= 0 \/ a.height <= 0 THEN FALSE
    ELSE ~(a.frontX < b.x \/ a.frontY < b.y \/ a.top < b.z)

\* Cube.intersects(a, b)
CubeIntersects(a, b) ==
    IF a.widthX <= 0 \/ a.widthY <= 0 \/ a.height <= 0
       \/ b.widthX <= 0 \/ b.widthY <= 0 \/ b.height <= 0
    THEN FALSE
    ELSE ~(a.frontX < b.x \/ a.frontY < b.y \/ a.x > b.frontX
           \/ a.y > b.frontY \/ a.z > b.top \/ a.top < b.z)

\* Octree constructor followed by reset; 0 stands for an omitted argument
OctreeReset(x, y, z, widthX, widthY, height, maxObjects, maxLevels, level) ==
    [maxObjects |-> IF maxObjects = 0 THEN 10 ELSE maxObjects,
     maxLevels  |-> IF maxLevels = 0 THEN 4 ELSE maxLevels,
     level      |-> level,
     bounds     |-> [x |-> Round(x), y |-> Round(y), z |-> Round(z),
                     widthX |-> widthX, widthY |-> widthY, height |-> height,
                     subWidthX |-> FloorHalf(widthX),
                     subWidthY |-> FloorHalf(widthY),
                     subHeight |-> FloorHalf(height),
                     frontX |-> Round(x) + FloorHalf(widthX),
                     frontY |-> Round(y) + FloorHalf(widthY),
                     top    |-> Round(z) + FloorHalf(height)],
     objects    |-> <<>>]

\* nodes[0] != null
HasNodes(t, p) == Append(p, 0) \in DOMAIN t

\* The origin of octant k of a node
OctantOrigin(b, k) ==
    [x |-> IF k \in {1, 3, 5, 7} THEN b.frontX ELSE b.x,
     y |-> IF k \in {2, 3, 6, 7} THEN b.frontY ELSE b.y,
     z |-> IF k \in {4, 5, 6, 7} THEN b.top ELSE b.z]

\* split: the eight children are constructed with this.maxLevels in the
\* maxObjects position, this.level + 1 in the maxLevels position and no level
Split(t, p) ==
    LET n == t[p]
        b == n.bounds
        child(k) == OctreeReset(OctantOrigin(b, k).x, OctantOrigin(b, k).y,
                                OctantOrigin(b, k).z,
                                b.subWidthX, b.subWidthY, b.subHeight,
                                n.maxLevels, n.level + 1, 0)
    IN  [q \in DOMAIN t \cup {Append(p, k) : k \in 0..7} |->
            IF q \in DOMAIN t THEN t[q] ELSE child(q[Len(q)])]

\* getIndex with the back edge alone deciding the lower side of each axis
GetIndexBackEdgeOnly(b, cube) ==
    IF cube.x < b.frontX
    THEN IF cube.y < b.frontY
         THEN IF cube.z < b.top THEN 0
              ELSE IF cube.z > b.top THEN 4 ELSE -1
         ELSE IF cube.y > b.frontY
              THEN IF cube.z < b.top THEN 2
                   ELSE IF cube.z > b.top THEN 6 ELSE -1
              ELSE -1
    ELSE IF cube.x > b.frontX
         THEN IF cube.y < b.frontY
              THEN IF cube.z < b.top THEN 1
                   ELSE IF cube.z > b.top THEN 5 ELSE -1
              ELSE IF cube.y > b.frontY
                   THEN IF cube.z < b.top THEN 3
                        ELSE IF cube.z > b.top THEN 7 ELSE -1
                   ELSE -1
         ELSE -1

\* getIndex: the octant the box fits into, or -1
GetIndex(b, cube) ==
    IF cube.x < b.frontX /\ cube.frontX < b.frontX
    THEN IF cube.y < b.frontY /\ cube.frontY < b.frontY
         THEN IF cube.z < b.top /\ cube.top < b.top THEN 0
              ELSE IF cube.z > b.top THEN 4 ELSE -1
         ELSE IF cube.y > b.frontY
              THEN IF cube.z < b.top /\ cube.top < b.top THEN 2
                   ELSE IF cube.z > b.top THEN 6 ELSE -1
              ELSE -1
    ELSE IF cube.x > b.frontX
         THEN IF cube.y < b.frontY /\ cube.frontY < b.frontY
              THEN IF cube.z < b.top /\ cube.top < b.top THEN 1
                   ELSE IF cube.z > b.top THEN 5 ELSE -1
              ELSE IF cube.y > b.frontY
                   THEN IF cube.z < b.top /\ cube.top < b.top THEN 3
                        ELSE IF cube.z > b.top THEN 7 ELSE -1
                   ELSE -1
         ELSE -1

\* objects.splice(i, 1)
Splice(s, i) == [j \in 1..(Len(s) - 1) |-> IF j < i THEN s[j] ELSE s[j + 1]]

RECURSIVE Insert(_, _, _, _), Redistribute(_, _, _, _)

\* insert(body) on the node at path p.  o is [nodes, overflow]; cubeOf maps
\* an object id to the box it has now.  A call nested deeper than StackLimit
\* is a call the engine cannot make (RangeError): below a node of zero size
\* every child has its parent's bounds, so a recursion that gets that deep
\* repeats itself for ever.
Insert(o, p, body, cubeOf) ==
    IF o.overflow THEN o
    ELSE IF Len(p) > StackLimit THEN [o EXCEPT !.overflow = TRUE]
    ELSE
    LET t == o.nodes
        index == IF HasNodes(t, p) THEN GetIndex(t[p].bounds, cubeOf[body]) ELSE -1
    IN  IF HasNodes(t, p) /\ index # -1
        THEN Insert(o, Append(p, index), body, cubeOf)
        ELSE LET t1 == [t EXCEPT ![p].objects = Append(@, body)]
                 n  == t1[p]
             IN  IF Len(n.objects) > n.maxObjects /\ n.level < n.maxLevels
                 THEN LET t2 == IF HasNodes(t1, p) THEN t1 ELSE Split(t1, p)
                      IN  Redistribute([o EXCEPT !.nodes = t2], p, 1, cubeOf)
                 ELSE [o EXCEPT !.nodes = t1]

\* the while loop of insert, i counted from 1
Redistribute(o, p, i, cubeOf) ==
    IF o.overflow THEN o
    ELSE
    LET t == o.nodes
        objs == t[p].objects
    IN  IF i > Len(objs) THEN o
        ELSE LET index == GetIndex(t[p].bounds, cubeOf[objs[i]])
             IN  IF index # -1
                 THEN Redistribute(
                        Insert([o EXCEPT !.nodes[p].objects = Splice(objs, i)],
                               Append(p, index), objs[i], cubeOf),
                        p, i, cubeOf)
                 ELSE Redistribute(o, p, i + 1, cubeOf)

RECURSIVE Retrieve(_, _, _)

\* retrieve(source): the node's objects, then those of the matching child
\* or of all eight children
Retrieve(t, p, cube) ==
    LET index == GetIndex(t[p].bounds, cube)
        sub(k) == Retrieve(t, Append(p, k), cube)
    IN  IF HasNodes(t, p)
        THEN IF index # -1
             THEN t[p].objects \o sub(index)
             ELSE t[p].objects \o sub(0) \o sub(1) \o sub(2) \o sub(3)
                              \o sub(4) \o sub(5) \o sub(6) \o sub(7)
        ELSE t[p].objects

\* clear() followed by reset(...), as collideSpriteVsGroup calls them; clear
\* empties the object list and drops every child
OctreeClear(t) == [q \in {<<>>} |-> [t[<<>>] EXCEPT !.objects = <<>>]]

NewOctree(maxObjects, maxLevels) ==
    [nodes |-> [q \in {<<>>} |->
                  OctreeReset(Bounds.x, Bounds.y, Bounds.z,
                              Bounds.widthX, Bounds.widthY, Bounds.height,
                              maxObjects, maxLevels, 0)],
     overflow |-> FALSE]

----------------------------------------------------------------------------
(* The Octree on its own: clear, reset, insert, retrieve *)

\* A quarter of the world's extent, and half of that
Cell == WorldSize \div 4

Half == Cell \div 2

Diag(lo, w) == MkCube(lo, lo, lo, w, w, w)

\* The boxes inserted: cubes on the diagonal of the world (inside one octant
\* at one, two or every level, touching a midplane, straddling one) and boxes
\* off the diagonal
Boxes ==
    { Diag(0, Cell), Diag(0, Half), Diag(Cell, 2 * Cell),
      Diag(2 * Cell + Half, Cell), Diag(3 * Cell, Cell),
      Diag(WorldSize - Unit \div 2, Unit \div 2),
      MkCube(0, 3 * Cell, 0, Cell, Cell, Cell),
      MkCube(2 * Cell + Half, 0, 0, Cell, 4 * Cell, Cell) }

\* The query boxes of retrieve
Queries ==
    { Diag(0, 4 * Cell), Diag(2 * Cell + Half, Cell + Half), Diag(0, Cell + Half),
      Diag(3 * Cell + Half, Half), Diag(2 * Cell, 2 * Cell),
      MkCube(0, 2 * Cell + Half, 0, Cell + Half, Cell + Half, Cell + Half) }

NoRetrieve == [query |-> MkCube(0, 0, 0, 0, 0, 0), result |-> <<>>, done |-> FALSE]

OctreeIdle ==
    /\ octree = NewOctree(0, 0)
    /\ cubes = <<>>
    /\ retrieved = NoRetrieve

InitOctree ==
    /\ octree = NewOctree(0, 0)
    /\ cubes = <<>>
    /\ retrieved = NoRetrieve

\* octree.clear()
DoClear ==
    /\ octree' = [nodes |-> OctreeClear(octree.nodes), overflow |-> FALSE]
    /\ cubes' = <<>>
    /\ retrieved' = NoRetrieve
    /\ UNCHANGED <<sortVars, physVars, geomVars>>

\* octree.reset(bounds, maxObjects, maxLevels)
DoReset(maxObjects, maxLevels) ==
    /\ octree' = NewOctree(maxObjects, maxLevels)
    /\ cubes' = <<>>
    /\ retrieved' = NoRetrieve
    /\ UNCHANGED <<sortVars, physVars, geomVars>>

\* octree.insert(box)
DoInsert(box) ==
    /\ ~octree.overflow
    /\ Len(cubes) < MaxInserts
    /\ cubes' = Append(cubes, box)
    /\ octree' = Insert(octree, <<>>, Len(cubes) + 1, cubes')
    /\ retrieved' = NoRetrieve
    /\ UNCHANGED <<sortVars, physVars, geomVars>>

\* octree.retrieve(query)
DoRetrieve(query) ==
    /\ ~octree.overflow
    /\ cubes # <<>>
    /\ retrieved' = [query |-> query,
                     result |-> Retrieve(octree.nodes, <<>>, query),
                     done |-> TRUE]
    /\ UNCHANGED <<octree, cubes, sortVars, physVars, geomVars>>

NextOctree ==
    \/ DoClear
    \/ \E mo \in {1, 2}, ml \in {1, 2} : DoReset(mo, ml)
    \/ \E box \in Boxes : DoInsert(box)
    \/ \E query \in Queries : DoRetrieve(query)

----------------------------------------------------------------------------
(* Projector: topologicalSort *)

SpriteIds == 1..NSprites

\* null in an isoSpritesBehind array
Null == 0

\* the default of the padding argument, 1.5, and the mark of an omitted one
DefaultPadding == (3 * Unit) \div 2

Omitted == -1

\* the test of topologicalSort: b is behind a
IsBehind(a, b, padding) ==
    /\ b.pos.x + padding < a.bounds.frontX - padding
    /\ b.pos.y + padding < a.bounds.frontY - padding
    /\ b.pos.z + padding < a.bounds.top - padding

\* the first loop's writes to a.isoSpritesBehind: entries 0..behindIndex-1
\* are overwritten, the rest of the array stays as an earlier call left it
WriteBehind(old, list) ==
    [k \in 1..(IF Len(old) > Len(list) THEN Len(old) ELSE Len(list)) |->
        IF k <= Len(list) THEN list[k] ELSE old[k]]

\* the sprites the first loop finds behind children[i], in the order of j
BehindOf(spr, kids, i, padding) ==
    LET js == SelectSeq([j \in 1..Len(kids) |-> j],
                        LAMBDA j : j # i /\ IsBehind(spr[kids[i]], spr[kids[j]], padding))
    IN  [k \in 1..Len(js) |-> kids[js[k]]]

\* the first loop of topologicalSort
MarkBehind(spr, kids, padding) ==
    [s \in DOMAIN spr |->
        IF \E i \in 1..Len(kids) : kids[i] = s
        THEN LET i == CHOOSE i \in 1..Len(kids) : kids[i] = s
             IN  [spr[s] EXCEPT
                    !.isoSpritesBehind = WriteBehind(@, BehindOf(spr, kids, i, padding)),
                    !.isoVisitedFlag = FALSE]
        ELSE spr[s]]

RECURSIVE visitNode(_, _), VisitBehind(_, _, _, _)

RECURSIVE VisitBehindKeepsEntries(_, _, _, _)

\* a loop of visitNode that leaves the entries it visited in the array
VisitBehindKeepsEntries(st, node, k, spritesBehindLength) ==
    IF k > spritesBehindLength THEN st
    ELSE IF st.spr[node].isoSpritesBehind[k] = Null THEN st
    ELSE VisitBehindKeepsEntries(visitNode(st, st.spr[node].isoSpritesBehind[k]),
                                 node, k + 1, spritesBehindLength)

\* a visitNode that stores the key before it visits the sprites behind
visitNodeKeyFirst(st, node) ==
    IF st.spr[node].isoVisitedFlag = FALSE
    THEN LET st1 == [st EXCEPT !.spr[node].isoVisitedFlag = TRUE,
                               !.spr[node].isoDepth = st.sortDepth,
                               !.sortDepth = st.sortDepth + 1,
                               !.calls = st.calls + 1]
         IN  VisitBehind(st1, node, 1, Len(st1.spr[node].isoSpritesBehind))
    ELSE [st EXCEPT !.calls = @ + 1]

\* visitNode(node); st is [spr, sortDepth, calls], calls being the number
\* of times visitNode was entered
visitNode(st, node) ==
    IF st.spr[node].isoVisitedFlag = FALSE
    THEN LET st1 == [st EXCEPT !.spr[node].isoVisitedFlag = TRUE, !.calls = @ + 1]
             st2 == VisitBehind(st1, node, 1, Len(st1.spr[node].isoSpritesBehind))
         IN  [st2 EXCEPT !.spr[node].isoDepth = st2.sortDepth,
                         !.sortDepth = st2.sortDepth + 1]
    ELSE [st EXCEPT !.calls = @ + 1]

\* the for loop of visitNode over isoSpritesBehind[k], k counted from 1
VisitBehind(st, node, k, spritesBehindLength) ==
    IF k > spritesBehindLength THEN st
    ELSE IF st.spr[node].isoSpritesBehind[k] = Null THEN st
    ELSE LET st1 == visitNode(st, st.spr[node].isoSpritesBehind[k])
         IN  VisitBehind([st1 EXCEPT !.spr[node].isoSpritesBehind[k] = Null],
                         node, k + 1, spritesBehindLength)

RECURSIVE VisitAll(_, _, _)

\* the last loop of topologicalSort
VisitAll(st, kids, i) ==
    IF i > Len(kids) THEN st ELSE VisitAll(visitNode(st, kids[i]), kids, i + 1)

\* group.sort(prop): the children in ascending order of their key
SortByDepth(spr, kids) ==
    LET Before(j) == Cardinality({i \in 1..Len(kids) :
                        \/ spr[kids[i]].isoDepth < spr[kids[j]].isoDepth
                        \/ spr[kids[i]].isoDepth = spr[kids[j]].isoDepth /\ i < j})
    IN  [k \in 1..Len(kids) |-> kids[CHOOSE j \in 1..Len(kids) : Before(j) = k - 1]]

\* topologicalSort(group, padding): [spr, kids], and the number of times
\* visitNode was entered
topologicalSort(spr, kids, padding, isGroup) ==
    IF Len(kids) = 0 /\ ~isGroup THEN [spr |-> spr, kids |-> kids, calls |-> 0]
    ELSE LET pad == IF padding = Omitted THEN DefaultPadding ELSE padding
             st  == VisitAll([spr |-> MarkBehind(spr, kids, pad), sortDepth |-> 0,
                              calls |-> 0],
                             kids, 1)
         IN  [spr |-> st.spr,
              kids |-> IF isGroup THEN SortByDepth(st.spr, kids) ELSE kids,
              calls |-> st.calls]

\* The positions the sprites take, a staircase through the world
SortPositions ==
    { [x |-> c[1] * Unit, y |-> c[2] * Unit, z |-> c[3] * Unit] :
        c \in { <<0, 0, 0>>, <<2, 0, 0>>, <<2, 2, 0>>, <<2, 2, 2>>, <<0, 2, 2>> } }

\* Sprite s is a cube of 4 units (odd ids) or 2 units (even ids), its bounds
\* starting at its iso position
SortSize(s) == IF s % 2 = 1 THEN 4 * Unit ELSE 2 * Unit

PlaceSprite(rec, s, pos) ==
    [rec EXCEPT !.pos = pos,
                !.bounds = MkCube(pos.x, pos.y, pos.z, SortSize(s), SortSize(s), SortSize(s))]

NewIsoSprite(s, pos) ==
    PlaceSprite([pos |-> pos, bounds |-> MkCube(0, 0, 0, 0, 0, 0),
                 isoSpritesBehind |-> <<>>, isoVisitedFlag |-> "undefined",
                 isoDepth |-> -1], s, pos)

NotSorted == [done |-> FALSE, behind |-> {}, moves |-> 0, calls |-> 0, sorts |-> 0]

SortIdle ==
    /\ isoSprite = [s \in SpriteIds |-> NewIsoSprite(s, [x |-> 0, y |-> 0, z |-> 0])]
    /\ children = [i \in SpriteIds |-> i]
    /\ sorted = NotSorted

InitSort ==
    /\ isoSprite \in {[s \in SpriteIds |-> NewIsoSprite(s, f[s])] :
                        f \in [SpriteIds -> SortPositions]}
    /\ children = [i \in SpriteIds |-> i]
    /\ sorted = NotSorted

\* game.iso.topologicalSort(group or array, padding)
DoTopologicalSort(padding, isGroup) ==
    LET pad == IF padding = Omitted THEN DefaultPadding ELSE padding
        r == topologicalSort(isoSprite, children, padding, isGroup)
    IN  /\ isoSprite' = r.spr
        /\ children' = r.kids
        /\ sorted' = [sorted EXCEPT
                        !.done = TRUE,
                        !.calls = r.calls,
                        !.sorts = IF @ < 2 THEN @ + 1 ELSE @,
                        !.behind = {<<a, b>> \in SpriteIds \X SpriteIds :
                                      a # b /\ IsBehind(isoSprite[a], isoSprite[b], pad)}]
        /\ UNCHANGED <<octreeVars, physVars, geomVars>>

\* the application moves a sprite (isoX, isoY, isoZ setters)
DoMoveSprite(s, pos) ==
    /\ sorted.moves < MaxMoves
    /\ isoSprite[s].pos # pos
    /\ isoSprite' = [isoSprite EXCEPT ![s] = PlaceSprite(@, s, pos)]
    /\ sorted' = [sorted EXCEPT !.done = FALSE, !.moves = @ + 1]
    /\ UNCHANGED <<children, octreeVars, physVars, geomVars>>

NextSort ==
    \/ \E padding \in {Omitted, 0}, isGroup \in BOOLEAN : DoTopologicalSort(padding, isGroup)
    \/ \E s \in SpriteIds, pos \in SortPositions : DoMoveSprite(s, pos)

----------------------------------------------------------------------------
(* IsoArcade physics: sprites and bodies *)

BodyIds == 1..NBodies

Point3(x, y, z) == [x |-> x, y |-> y, z |-> z]

Zero3 == Point3(0, 0, 0)

\* game.time.physicsElapsed: one step of the clock per update
physicsElapsed == 1

\* value * 0.5; the runs of the model halve even values only (see Exact)
Halve(v) == v \div 2

\* Math.ceil of a value given in sub-units
Ceil(v) == -(((-v) \div Unit) * Unit)

\* Math.floor of a value given in sub-units
Floor(v) == (v \div Unit) * Unit

\* An owner of a body: an IsoSprite with its iso position, its pixel size,
\* its anchor (in halves: 1 is an anchor of 0.5) and its scale
NewSprite(iso, width, height, anchor) ==
    [iso |-> iso, exists |-> TRUE, width |-> width, height |-> height,
     anchor |-> anchor, scale |-> [x |-> 1, y |-> 1]]

NoTouching ==
    [none |-> TRUE, up |-> FALSE, down |-> FALSE, frontX |-> FALSE,
     frontY |-> FALSE, backX |-> FALSE, backY |-> FALSE]

NoBlocked ==
    [up |-> FALSE, down |-> FALSE, frontX |-> FALSE,
     frontY |-> FALSE, backX |-> FALSE, backY |-> FALSE]

AllCollision ==
    [none |-> FALSE, any |-> TRUE, up |-> TRUE, down |-> TRUE, frontX |-> TRUE,
     frontY |-> TRUE, backX |-> TRUE, backY |-> TRUE]

\* new Body(sprite).  Angular motion is left at rest: rotation, angle and
\* speed feed nothing else and are not kept.
NewBody(spr) ==
    LET widthX == Ceil(Halve(spr.width))
        height == spr.height - Ceil(Halve(spr.width))
    IN  [enable |-> TRUE,
         offset |-> Zero3,
         position |-> spr.iso,
         prev |-> spr.iso,
         widthX |-> widthX, widthY |-> widthX, height |-> height,
         halfWidthX |-> Abs(Halve(widthX)), halfWidthY |-> Abs(Halve(widthX)),
         halfHeight |-> Abs(Halve(height)),
         center |-> Point3(spr.iso.x + Abs(Halve(widthX)),
                           spr.iso.y + Abs(Halve(widthX)),
                           spr.iso.z + Abs(Halve(height))),
         velocity |-> Zero3,
         newVelocity |-> Zero3,
         deltaMax |-> Zero3,
         acceleration |-> Zero3,
         drag |-> Zero3,
         allowGravity |-> TRUE,
         gravity |-> Zero3,
         bounce |-> Zero3,
         maxVelocity |-> Point3(10000 * Unit, 10000 * Unit, 10000 * Unit),
         mass |-> 1,
         facing |-> "NONE",
         immovable |-> FALSE,
         moves |-> TRUE,
         customSeparateX |-> FALSE, customSeparateY |-> FALSE,
         customSeparateZ |-> FALSE,
         overlapX |-> 0, overlapY |-> 0, overlapZ |-> 0,
         embedded |-> FALSE,
         collideWorldBounds |-> FALSE,
         checkCollision |-> AllCollision,
         touching |-> NoTouching,
         wasTouching |-> NoTouching,
         blocked |-> NoBlocked,
         phase |-> 0,
         skipTree |-> FALSE,
         reset |-> TRUE,
         sx |-> spr.scale.x, sy |-> spr.scale.y,
         dx |-> 0, dy |-> 0, dz |-> 0]

\* deltaX, deltaY, deltaZ by the name a of the axis
delta(b, a) == b.position[a] - b.prev[a]

\* deltaAbsX, deltaAbsY, deltaAbsZ
deltaAbs(b, a) == IF delta(b, a) > 0 THEN delta(b, a) ELSE -delta(b, a)

\* the getters frontX, frontY and top
frontX(b) == b.position.x + b.widthX

frontY(b) == b.position.y + b.widthY

top(b) == b.position.z + b.height

\* a body as the box the Octree reads
BodyCube(b) ==
    MkCube(b.position.x, b.position.y, b.position.z, b.widthX, b.widthY, b.height)

\* new Arcade(game)
NewArcade ==
    [gravity |-> Zero3,
     bounds |-> MkCube(Bounds.x, Bounds.y, Bounds.z,
                       Bounds.widthX, Bounds.widthY, Bounds.height),
     checkCollision |-> [up |-> TRUE, down |-> TRUE, frontX |-> TRUE,
                         frontY |-> TRUE, backX |-> TRUE, backY |-> TRUE],
     maxObjects |-> 10,
     maxLevels |-> 4,
     OVERLAP_BIAS |-> 4 * Unit,
     forceXY |-> FALSE,
     skipTree |-> FALSE]

----------------------------------------------------------------------------
(* Body: preUpdate and postUpdate *)

\* Arcade#computeVelocity for the axis named a
computeVelocity(w, a, b, velocity, acceleration, drag, max) ==
    LET max1 == IF max = 0 THEN 10000 * Unit ELSE max
        v1 == IF b.allowGravity
              THEN velocity + (w.gravity[a] + b.gravity[a]) * physicsElapsed
              ELSE velocity
        drag1 == drag * physicsElapsed
        v2 == IF acceleration # 0 THEN v1 + acceleration * physicsElapsed
              ELSE IF drag # 0
                   THEN IF v1 - drag1 > 0 THEN v1 - drag1
                        ELSE IF v1 + drag1 < 0 THEN v1 + drag1 ELSE 0
                   ELSE v1
    IN  IF v2 > max1 THEN max1 ELSE IF v2 < -max1 THEN -max1 ELSE v2

\* Arcade#updateMotion, the linear part
updateMotion(w, b) ==
    [b EXCEPT !.velocity =
        [a \in {"x", "y", "z"} |->
            computeVelocity(w, a, b, b.velocity[a], b.acceleration[a],
                            b.drag[a], b.maxVelocity[a])]]

\* Body#updateBounds
updateBounds(spr, b) ==
    LET asx == Abs(spr.scale.x)
        asy == Abs(spr.scale.y)
        widthX == Ceil(Halve(spr.width))
        height == Ceil(spr.height - Halve(spr.width))
    IN  IF asx # b.sx \/ asy # b.sy
        THEN [b EXCEPT !.widthX = widthX, !.widthY = widthX, !.height = height,
                       !.halfWidthX = Floor(widthX * 2),
                       !.halfWidthY = Floor(widthX * 2),
                       !.halfHeight = Floor(height * 2),
                       !.sx = asx, !.sy = asy,
                       !.center = Point3(b.position.x + Floor(widthX * 2),
                                         b.position.y + Floor(widthX * 2),
                                         b.position.z + Floor(height * 2)),
                       !.reset = TRUE]
        ELSE b

\* Body#setSize(widthX, widthY, height) with the offsets omitted; _sx and
\* _sy are plain numbers
setSize(b, widthX, widthY, height) ==
    [b EXCEPT !.widthX = widthX * b.sx,
              !.widthY = widthY * b.sx,
              !.height = height * b.sy,
              !.halfWidthX = FloorHalf(widthX * b.sx),
              !.halfWidthY = FloorHalf(widthY * b.sx),
              !.halfHeight = FloorHalf(height * b.sy),
              !.center = Point3(b.position.x + FloorHalf(widthX * b.sx),
                                b.position.y + FloorHalf(widthY * b.sx),
                                b.position.z + FloorHalf(height * b.sy))]

\* one axis of Body#checkWorldBounds: a its name, size the extent's field,
\* back and front the flags of the two faces
ClampToWorld(w, b, a, size, lo, hi, back, front) ==
    IF b.position[a] < lo /\ w.checkCollision[back]
    THEN [b EXCEPT !.position[a] = lo,
                   !.velocity[a] = @ * (-b.bounce[a]),
                   !.blocked[back] = TRUE]
    ELSE IF b.position[a] + b[size] > hi /\ w.checkCollision[front]
    THEN [b EXCEPT !.position[a] = hi - b[size],
                   !.velocity[a] = @ * (-b.bounce[a]),
                   !.blocked[front] = TRUE]
    ELSE b

\* a checkWorldBounds that leaves the z axis alone
checkWorldBoundsXY(w, b) ==
    LET bx == ClampToWorld(w, b, "x", "widthX", w.bounds.x, w.bounds.frontX,
                           "backX", "frontX")
    IN  ClampToWorld(w, bx, "y", "widthY", w.bounds.y, w.bounds.frontY,
                     "backY", "frontY")

\* Body#checkWorldBounds
checkWorldBounds(w, b) ==
    LET bx == ClampToWorld(w, b, "x", "widthX", w.bounds.x, w.bounds.frontX,
                           "backX", "frontX")
        by == ClampToWorld(w, bx, "y", "widthY", w.bounds.y, w.bounds.frontY,
                           "backY", "frontY")
    IN  ClampToWorld(w, by, "z", "height", w.bounds.z, w.bounds.top, "down", "up")

\* the position preUpdate and reset give a body whose owner is at iso
AnchoredPosition(spr, b, iso) ==
    Point3(iso.x + (-Halve(b.widthX * spr.anchor.x) + Halve(b.widthX)) + b.offset.x,
           iso.y + (Halve(b.widthY * spr.anchor.x) - Halve(b.widthY)) + b.offset.y,
           iso.z - (Abs(spr.height) - Halve(Abs(spr.height) * spr.anchor.y))
                 + Abs(Halve(spr.width)) + b.offset.z)

\* a preUpdate that clears the six directions of touching and leaves
\* touching.none as it was
preUpdateKeepsNone(w, spr, b) ==
    LET b1 == updateBounds(spr,
                [b EXCEPT !.phase = 1,
                          !.wasTouching = b.touching,
                          !.touching = [NoTouching EXCEPT !.none = b.touching.none],
                          !.blocked = NoBlocked,
                          !.embedded = FALSE])
        b2 == [b1 EXCEPT !.position = AnchoredPosition(spr, b1, spr.iso)]
        b3 == IF b2.reset THEN [b2 EXCEPT !.prev = b2.position] ELSE b2
        b4 == updateMotion(w, b3)
        b5 == [b4 EXCEPT
                 !.newVelocity = Point3(b4.velocity.x * physicsElapsed,
                                        b4.velocity.y * physicsElapsed,
                                        b4.velocity.z * physicsElapsed),
                 !.position = Point3(@.x + b4.velocity.x * physicsElapsed,
                                     @.y + b4.velocity.y * physicsElapsed,
                                     @.z + b4.velocity.z * physicsElapsed)]
        b6 == IF ~b3.moves THEN b3
              ELSE IF b5.collideWorldBounds THEN checkWorldBounds(w, b5) ELSE b5
    IN  [b6 EXCEPT !.dx = delta(b6, "x"), !.dy = delta(b6, "y"),
                   !.dz = delta(b6, "z"), !.reset = FALSE]

\* Body#preUpdate after its check of enable.  sprite.fresh and
\* sprite.outOfBoundsKill are false.
preUpdateEnabled(w, spr, b) ==
    LET b1 == updateBounds(spr,
                [b EXCEPT !.phase = 1,
                          !.wasTouching = b.touching,
                          !.touching = NoTouching,
                          !.blocked = NoBlocked,
                          !.embedded = FALSE])
        b2 == [b1 EXCEPT !.position = AnchoredPosition(spr, b1, spr.iso)]
        b3 == IF b2.reset THEN [b2 EXCEPT !.prev = b2.position] ELSE b2
        b4 == updateMotion(w, b3)
        b5 == [b4 EXCEPT
                 !.newVelocity = Point3(b4.velocity.x * physicsElapsed,
                                        b4.velocity.y * physicsElapsed,
                                        b4.velocity.z * physicsElapsed),
                 !.position = Point3(@.x + b4.velocity.x * physicsElapsed,
                                     @.y + b4.velocity.y * physicsElapsed,
                                     @.z + b4.velocity.z * physicsElapsed)]
        b6 == IF ~b3.moves THEN b3
              ELSE IF b5.collideWorldBounds THEN checkWorldBounds(w, b5) ELSE b5
    IN  [b6 EXCEPT !.dx = delta(b6, "x"), !.dy = delta(b6, "y"),
                   !.dz = delta(b6, "z"), !.reset = FALSE]

\* a preUpdate that does not look at enable
preUpdateDisabledToo(w, spr, b) == preUpdateEnabled(w, spr, b)

\* Body#preUpdate
preUpdate(w, spr, b) ==
    IF ~b.enable THEN b ELSE preUpdateEnabled(w, spr, b)

\* the facing postUpdate stores
Facing(b) ==
    IF deltaAbs(b, "x") >= deltaAbs(b, "y") /\ deltaAbs(b, "x") >= deltaAbs(b, "z")
    THEN IF delta(b, "x") < 0 THEN "BACKWARDX"
         ELSE IF delta(b, "x") > 0 THEN "FORWARDX" ELSE b.facing
    ELSE IF deltaAbs(b, "y") >= deltaAbs(b, "x") /\ deltaAbs(b, "y") >= deltaAbs(b, "z")
    THEN IF delta(b, "y") < 0 THEN "BACKWARDY"
         ELSE IF delta(b, "y") > 0 THEN "FORWARDY" ELSE b.facing
    ELSE IF delta(b, "z") < 0 THEN "DOWN"
         ELSE IF delta(b, "z") > 0 THEN "UP" ELSE b.facing

\* the delta postUpdate hands to the owner on one axis
ClampDelta(d, deltaMax) ==
    IF deltaMax # 0 /\ d # 0
    THEN IF d < 0 /\ d < -deltaMax THEN -deltaMax
         ELSE IF d > 0 /\ d > deltaMax THEN deltaMax ELSE d
    ELSE d

\* a postUpdate that hands the displacement to the owner and leaves prev
\* as it was
postUpdateKeepsPrev(spr, b) ==
    LET b1 == [b EXCEPT !.phase = 2]
        b2 == IF b1.reset THEN [b1 EXCEPT !.prev = b1.position] ELSE b1
        b3 == [b2 EXCEPT !.facing = Facing(b2)]
        b4 == IF b3.moves
              THEN [b3 EXCEPT !.dx = ClampDelta(delta(b3, "x"), b3.deltaMax.x),
                              !.dy = ClampDelta(delta(b3, "y"), b3.deltaMax.y),
                              !.dz = ClampDelta(delta(b3, "z"), b3.deltaMax.z)]
              ELSE b3
        spr1 == IF b3.moves
                THEN [spr EXCEPT !.iso = Point3(@.x + b4.dx, @.y + b4.dy, @.z + b4.dz)]
                ELSE spr
    IN  [sprite |-> spr1,
         body |-> [b4 EXCEPT
                     !.center = Point3(b4.position.x + b4.halfWidthX,
                                       b4.position.y + b4.halfWidthY,
                                       b4.position.z + b4.halfHeight),
                     !.reset = FALSE]]

\* Body#postUpdate after its checks of enable and phase: [sprite, body].
\* The owner's isoX, isoY and isoZ setters set _reset, which the last
\* statement clears again.
postUpdateOnce(spr, b) ==
    LET b1 == [b EXCEPT !.phase = 2]
        b2 == IF b1.reset THEN [b1 EXCEPT !.prev = b1.position] ELSE b1
        b3 == [b2 EXCEPT !.facing = Facing(b2)]
        b4 == IF b3.moves
              THEN [b3 EXCEPT !.dx = ClampDelta(delta(b3, "x"), b3.deltaMax.x),
                              !.dy = ClampDelta(delta(b3, "y"), b3.deltaMax.y),
                              !.dz = ClampDelta(delta(b3, "z"), b3.deltaMax.z)]
              ELSE b3
        spr1 == IF b3.moves
                THEN [spr EXCEPT !.iso = Point3(@.x + b4.dx, @.y + b4.dy, @.z + b4.dz)]
                ELSE spr
    IN  [sprite |-> spr1,
         body |-> [b4 EXCEPT
                     !.center = Point3(b4.position.x + b4.halfWidthX,
                                       b4.position.y + b4.halfWidthY,
                                       b4.position.z + b4.halfHeight),
                     !.prev = b4.position,
                     !.reset = FALSE]]

\* a postUpdate that does not look at phase
postUpdateEveryCall(spr, b) ==
    IF ~b.enable THEN [sprite |-> spr, body |-> b] ELSE postUpdateOnce(spr, b)

\* Body#postUpdate: [sprite, body]
postUpdate(spr, b) ==
    IF ~b.enable \/ b.phase = 2 THEN [sprite |-> spr, body |-> b]
    ELSE postUpdateOnce(spr, b)

----------------------------------------------------------------------------
(* Arcade: the narrow phase *)

\* an intersects for which bodies whose faces touch intersect
intersectsTouching(body1, body2) ==
    IF frontX(body1) < body2.position.x THEN FALSE
    ELSE IF frontY(body1) < body2.position.y THEN FALSE
    ELSE IF body1.position.x > frontX(body2) THEN FALSE
    ELSE IF body1.position.y > frontY(body2) THEN FALSE
    ELSE IF top(body1) < body2.position.z THEN FALSE
    ELSE IF body1.position.z > top(body2) THEN FALSE
    ELSE TRUE

\* Arcade#intersects
intersects(body1, body2) ==
    IF frontX(body1) <= body2.position.x THEN FALSE
    ELSE IF frontY(body1) <= body2.position.y THEN FALSE
    ELSE IF body1.position.x >= frontX(body2) THEN FALSE
    ELSE IF body1.position.y >= frontY(body2) THEN FALSE
    ELSE IF top(body1) <= body2.position.z THEN FALSE
    ELSE IF body1.position.z >= top(body2) THEN FALSE
    ELSE TRUE

\* What differs between separateX, separateY and separateZ: the axis, the
\* extent, the faces of a body moving forward and back, the overlap field,
\* the custom-separation flags read on body1 and on body2, and the carry of
\* a body riding a moving one
AxisX ==
    [name |-> "X", pos |-> "x", size |-> "widthX", fwd |-> "frontX", bwd |-> "backX",
     overlap |-> "overlapX", custom1 |-> "customSeparateX",
     custom2 |-> "customSeparateX", carry |-> FALSE]

AxisY ==
    [name |-> "Y", pos |-> "y", size |-> "widthY", fwd |-> "frontY", bwd |-> "backY",
     overlap |-> "overlapY", custom1 |-> "customSeparateY",
     custom2 |-> "customSeparateY", carry |-> FALSE]

AxisZ ==
    [name |-> "Z", pos |-> "z", size |-> "height", fwd |-> "down", bwd |-> "up",
     overlap |-> "overlapZ", custom1 |-> "customSeparateY",
     custom2 |-> "customSeparateZ", carry |-> TRUE]

\* Math.sqrt of a perfect square
Sqrt(n) == CHOOSE r \in 0..n : r * r <= n /\ n < (r + 1) * (r + 1)

IsSquare(n) == Sqrt(n) * Sqrt(n) = n

\* the new velocity of a body hit by one of velocity v and mass m
Exchanged(v, m, mass) ==
    Sqrt((v * v * m) \div mass) * (IF v > 0 THEN 1 ELSE -1)

\* what a separation on one axis returns: the bodies after it, its result,
\* the overlap it computed, the bound it compared it with, whether it
\* rejected it, and whether every halving and root it took was exact
Separated(bs, ret, overlap, maxOverlap, rejected, exact) ==
    [body |-> bs, ret |-> ret, overlap |-> overlap, maxOverlap |-> maxOverlap,
     rejected |-> rejected, exact |-> exact]

\* a rebound that keeps all of the speed
ReboundKeepsSpeed(velocity, other, bounce) == other - velocity

\* the velocity of a movable body that met an immovable one
Rebound(velocity, other, bounce) == other - velocity * bounce

\* the adjustment of positions and velocities (overlap is not 0, so i # j)
Adjust(bs, i, j, overlap, ax) ==
    LET a == ax.pos
        v1 == bs[i].velocity[a]
        v2 == bs[j].velocity[a]
        m1 == bs[i].mass
        m2 == bs[j].mass
        half == Halve(overlap)
        nv1 == Exchanged(v2, m2, m1)
        nv2 == Exchanged(v1, m1, m2)
        average == Halve(nv1 + nv2)
    IN  IF ~bs[i].immovable /\ ~bs[j].immovable
        THEN [body |-> [bs EXCEPT
                          ![i].position[a] = @ - half,
                          ![j].position[a] = @ + half,
                          ![i].velocity[a] = average + (nv1 - average) * bs[i].bounce[a],
                          ![j].velocity[a] = average + (nv2 - average) * bs[j].bounce[a]],
              exact |-> /\ overlap % 2 = 0
                        /\ (nv1 + nv2) % 2 = 0
                        /\ (v2 * v2 * m2) % m1 = 0 /\ IsSquare((v2 * v2 * m2) \div m1)
                        /\ (v1 * v1 * m1) % m2 = 0 /\ IsSquare((v1 * v1 * m1) \div m2)]
        ELSE IF ~bs[i].immovable
        THEN LET bs1 == [bs EXCEPT ![i].position[a] = @ - overlap,
                                   ![i].velocity[a] = Rebound(v1, v2, bs[i].bounce[a])]
             IN  [body |-> IF ax.carry /\ bs1[j].moves
                           THEN [bs1 EXCEPT
                                   ![i].position.x = @ + bs1[j].position.x - bs1[j].prev.x,
                                   ![i].position.y = @ + bs1[j].position.y - bs1[j].prev.y]
                           ELSE bs1,
                  exact |-> TRUE]
        ELSE IF ~bs[j].immovable
        THEN LET bs1 == [bs EXCEPT ![j].position[a] = @ + overlap,
                                   ![j].velocity[a] = Rebound(v2, v1, bs[j].bounce[a])]
             IN  [body |-> IF ax.carry /\ bs1[i].moves
                           THEN [bs1 EXCEPT
                                   ![j].position.x = @ + bs1[i].position.x - bs1[i].prev.x,
                                   ![j].position.y = @ + bs1[i].position.y - bs1[i].prev.y]
                           ELSE bs1,
                  exact |-> TRUE]
        ELSE [body |-> bs, exact |-> TRUE]

\* this._maxOverlap
MaxOverlap(w, body1, body2, a) ==
    deltaAbs(body1, a) + deltaAbs(body2, a) + w.OVERLAP_BIAS

\* the overlap separateX, separateY and separateZ compute
Computed(body1, body2, ax) ==
    IF delta(body1, ax.pos) > delta(body2, ax.pos)
    THEN body1.position[ax.pos] + body1[ax.size] - body2.position[ax.pos]
    ELSE IF delta(body1, ax.pos) < delta(body2, ax.pos)
    THEN body1.position[ax.pos] - body2[ax.size] - body2.position[ax.pos]
    ELSE 0

\* a test that looks at the checkCollision flags only
RejectedByFlags(w, body1, body2, ax) ==
    IF delta(body1, ax.pos) > delta(body2, ax.pos)
    THEN body1.checkCollision[ax.fwd] = FALSE \/ body2.checkCollision[ax.bwd] = FALSE
    ELSE IF delta(body1, ax.pos) < delta(body2, ax.pos)
    THEN body1.checkCollision[ax.bwd] = FALSE \/ body2.checkCollision[ax.fwd] = FALSE
    ELSE FALSE

\* the test that sets a computed overlap back to 0
Rejected(w, body1, body2, ax) ==
    IF delta(body1, ax.pos) > delta(body2, ax.pos)
    THEN \/ Computed(body1, body2, ax) > MaxOverlap(w, body1, body2, ax.pos)
         \/ body1.checkCollision[ax.fwd] = FALSE
         \/ body2.checkCollision[ax.bwd] = FALSE
    ELSE IF delta(body1, ax.pos) < delta(body2, ax.pos)
    THEN \/ -Computed(body1, body2, ax) > MaxOverlap(w, body1, body2, ax.pos)
         \/ body1.checkCollision[ax.bwd] = FALSE
         \/ body2.checkCollision[ax.fwd] = FALSE
    ELSE FALSE

\* separateX, separateY and separateZ once the hulls are known to overlap
Overlapping(w, bs, i, j, overlapOnly, ax) ==
    LET a == ax.pos
        body1 == bs[i]
        body2 == bs[j]
        d1 == delta(body1, a)
        d2 == delta(body2, a)
        computed == Computed(body1, body2, ax)
        rejected == Rejected(w, body1, body2, ax)
        overlap == IF rejected THEN 0 ELSE computed
        bs1 == IF d1 = 0 /\ d2 = 0
               THEN [bs EXCEPT ![i].embedded = TRUE, ![j].embedded = TRUE]
               ELSE IF d1 > d2 /\ ~rejected
               THEN [bs EXCEPT ![i].touching.none = FALSE, ![i].touching[ax.fwd] = TRUE,
                               ![j].touching.none = FALSE, ![j].touching[ax.bwd] = TRUE]
               ELSE IF d1 < d2 /\ ~rejected
               THEN [bs EXCEPT ![i].touching.none = FALSE, ![i].touching[ax.bwd] = TRUE,
                               ![j].touching.none = FALSE, ![j].touching[ax.fwd] = TRUE]
               ELSE bs
        bs2 == [bs1 EXCEPT ![i][ax.overlap] = overlap, ![j][ax.overlap] = overlap]
        adj == Adjust(bs2, i, j, overlap, ax)
        maxOverlap == MaxOverlap(w, body1, body2, a)
    IN  IF overlap = 0
        THEN Separated(bs1, FALSE, computed, maxOverlap, rejected, TRUE)
        ELSE IF overlapOnly \/ body1[ax.custom1] \/ body2[ax.custom2]
        THEN Separated(bs2, TRUE, computed, maxOverlap, FALSE, TRUE)
        ELSE Separated(adj.body, TRUE, computed, maxOverlap, FALSE, adj.exact)

\* a separateX, separateY or separateZ that tries to separate two immovable
\* bodies as well
separateAxisAlways(w, bs, i, j, overlapOnly, ax) ==
    IF ~intersects(bs[i], bs[j])
    THEN Separated(bs, FALSE, 0, 0, FALSE, TRUE)
    ELSE Overlapping(w, bs, i, j, overlapOnly, ax)

\* separateX, separateY and separateZ on the bodies i and j of bs
separateAxis(w, bs, i, j, overlapOnly, ax) ==
    IF bs[i].immovable /\ bs[j].immovable
    THEN Separated(bs, FALSE, 0, 0, FALSE, TRUE)
    ELSE IF ~intersects(bs[i], bs[j])
    THEN Separated(bs, FALSE, 0, 0, FALSE, TRUE)
    ELSE Overlapping(w, bs, i, j, overlapOnly, ax)

separateX(w, bs, i, j, overlapOnly) == separateAxis(w, bs, i, j, overlapOnly, AxisX)

separateY(w, bs, i, j, overlapOnly) == separateAxis(w, bs, i, j, overlapOnly, AxisY)

separateZ(w, bs, i, j, overlapOnly) == separateAxis(w, bs, i, j, overlapOnly, AxisZ)

\* what one separateX, separateY or separateZ call did to the pair, for the
\* record of a call
Attempt(ax, bs, r, i, j) ==
    [axis |-> ax.name, ret |-> r.ret, overlap |-> r.overlap,
     maxOverlap |-> r.maxOverlap, rejected |-> r.rejected,
     before |-> <<bs[i], bs[j]>>, after |-> <<r.body[i], r.body[j]>>]

\* the record of one separate call on the pair (i, j): the bodies when it
\* was entered, whether processCallback was consulted, what it answered and
\* what the bodies were at that moment, the axes tried, the result, the
\* bodies when it returned, and whether the collide or overlap callback was
\* called for the pair afterwards
Pair(i, j, bs, consulted, answer, attempts, ret, after) ==
    [b1 |-> i, b2 |-> j, entry |-> <<bs[i], bs[j]>>,
     consulted |-> consulted, answer |-> answer, atProcess |-> <<bs[i], bs[j]>>,
     attempts |-> attempts, ret |-> ret, exit |-> <<after[i], after[j]>>,
     called |-> FALSE]

\* an order of the axes that never looks at forceXY or at the gravity
AxisOrderZFirst(w, body1) == <<AxisZ, AxisX, AxisY>>

\* the axes in the order separate tries them
AxisOrder(w, body1) ==
    IF \/ w.forceXY
       \/ Abs(w.gravity.z + body1.gravity.z) < Abs(w.gravity.x + body1.gravity.x)
       \/ Abs(w.gravity.z + body1.gravity.z) < Abs(w.gravity.y + body1.gravity.y)
    THEN <<AxisX, AxisY, AxisZ>>
    ELSE <<AxisZ, AxisX, AxisY>>

\* the record separate leaves when the last axis it tried returned r, after
\* the attempts tried
Tried(bs, i, j, processCallback, attempts, r) ==
    [body |-> r.body, exact |-> r.exact,
     pair |-> Pair(i, j, bs, processCallback # "none", processCallback, attempts,
                   r.ret, r.body)]

\* the third axis of the order, tried when the second returned false
ThirdAxis(w, bs, i, j, processCallback, overlapOnly, order, tried, r2, r3) ==
    Tried(bs, i, j, processCallback,
          Append(tried, Attempt(order[3], r2.body, r3, i, j)), r3)

\* the second axis of the order, tried when the first returned false
SecondAxis(w, bs, i, j, processCallback, overlapOnly, order, tried, r1, r2) ==
    IF r2.ret
    THEN Tried(bs, i, j, processCallback,
               Append(tried, Attempt(order[2], r1.body, r2, i, j)), r2)
    ELSE ThirdAxis(w, bs, i, j, processCallback, overlapOnly, order,
                   Append(tried, Attempt(order[2], r1.body, r2, i, j)), r2,
                   separateAxis(w, r2.body, i, j, overlapOnly, order[3]))

\* the first axis of the order
FirstAxis(w, bs, i, j, processCallback, overlapOnly, order, r1) ==
    IF r1.ret
    THEN Tried(bs, i, j, processCallback, <<Attempt(order[1], bs, r1, i, j)>>, r1)
    ELSE SecondAxis(w, bs, i, j, processCallback, overlapOnly, order,
                    <<Attempt(order[1], bs, r1, i, j)>>, r1,
                    separateAxis(w, r1.body, i, j, overlapOnly, order[2]))

\* Arcade#separate from its choice of the order on: the axes are tried
\* until one returns true
SeparateAxes(w, bs, i, j, processCallback, overlapOnly) ==
    FirstAxis(w, bs, i, j, processCallback, overlapOnly, AxisOrder(w, bs[i]),
              separateAxis(w, bs, i, j, overlapOnly, AxisOrder(w, bs[i])[1]))

\* a separate that goes on to the axes when it is only to report an overlap
separateAxesInOverlap(w, bs, i, j, processCallback, overlapOnly) ==
    IF ~bs[i].enable \/ ~bs[j].enable \/ ~intersects(bs[i], bs[j])
    THEN [body |-> bs, exact |-> TRUE,
          pair |-> Pair(i, j, bs, FALSE, "none", <<>>, FALSE, bs)]
    ELSE IF processCallback = "false"
    THEN [body |-> bs, exact |-> TRUE,
          pair |-> Pair(i, j, bs, TRUE, processCallback, <<>>, FALSE, bs)]
    ELSE SeparateAxes(w, bs, i, j, processCallback, overlapOnly)

\* Arcade#separate that asks processCallback before it looks at the bodies
separateProcessFirst(w, bs, i, j, processCallback, overlapOnly) ==
    IF processCallback # "none" /\ processCallback = "false"
    THEN [body |-> bs, exact |-> TRUE,
          pair |-> Pair(i, j, bs, TRUE, processCallback, <<>>, FALSE, bs)]
    ELSE IF ~bs[i].enable \/ ~bs[j].enable \/ ~intersects(bs[i], bs[j])
    THEN [body |-> bs, exact |-> TRUE,
          pair |-> Pair(i, j, bs, processCallback # "none", processCallback, <<>>,
                        FALSE, bs)]
    ELSE IF overlapOnly
    THEN [body |-> bs, exact |-> TRUE,
          pair |-> Pair(i, j, bs, processCallback # "none", processCallback, <<>>,
                        TRUE, bs)]
    ELSE SeparateAxes(w, bs, i, j, processCallback, overlapOnly)

\* Arcade#separate on the bodies i and j of bs: [body, pair, exact].
\* processCallback is "none" when no callback is given, else what the
\* callback returns: "true", "false" or "undefined".
separate(w, bs, i, j, processCallback, overlapOnly) ==
    IF ~bs[i].enable \/ ~bs[j].enable \/ ~intersects(bs[i], bs[j])
    THEN [body |-> bs, exact |-> TRUE,
          pair |-> Pair(i, j, bs, FALSE, "none", <<>>, FALSE, bs)]
    ELSE IF processCallback # "none" /\ processCallback = "false"
    THEN [body |-> bs, exact |-> TRUE,
          pair |-> Pair(i, j, bs, TRUE, processCallback, <<>>, FALSE, bs)]
    ELSE IF overlapOnly
    THEN [body |-> bs, exact |-> TRUE,
          pair |-> Pair(i, j, bs, processCallback # "none", processCallback, <<>>,
                        TRUE, bs)]
    ELSE SeparateAxes(w, bs, i, j, processCallback, overlapOnly)

----------------------------------------------------------------------------
(* Arcade: collide and overlap *)

\* The objects handed to collide and overlap
Sprite(id) == [type |-> "ISOSPRITE", id |-> id, children |-> <<>>]

Group(kids) == [type |-> "GROUP", id |-> 0, children |-> kids]

NoObject == [type |-> "null", id |-> 0, children |-> <<>>]

Array(items) == [type |-> "ARRAY", items |-> items]

\* the state a collide or overlap call works on: the bodies, the world's
\* octree, _total, the record of the separate calls made, whether the
\* arithmetic stayed exact, and the indices of group.children that
\* collideGroupVsSelf read, counted from 0 as the code counts them
Working(bs, oct) ==
    [body |-> bs, octree |-> oct, total |-> 0, pairs |-> <<>>, exact |-> TRUE,
     read |-> {}]

\* what follows a separate that returned r: the callback and _total++
Called(st, collideCallback, r) ==
    [st EXCEPT !.body = r.body,
               !.exact = @ /\ r.exact,
               !.pairs = Append(@, [r.pair EXCEPT
                                      !.called = r.pair.ret /\ collideCallback]),
               !.total = IF r.pair.ret THEN @ + 1 ELSE @]

\* The processCallbacks of a game that call arcade.overlap on two sprites of
\* their own before they answer, and the two sprites
Nesting == {"overlapThenTrue", "overlapThenFalse"}

NestedObjects == <<2, 3>>

\* what the processCallback returns
Answer(processCallback) ==
    IF processCallback = "overlapThenTrue" THEN "true"
    ELSE IF processCallback = "overlapThenFalse" THEN "false"
    ELSE processCallback

\* arcade.overlap(sprite1, sprite2) of two existing sprites with no
\* callbacks, called while a collide or overlap works on st: _total is set
\* to 0 and counts the pair
overlapNested(w, st, sprite1, sprite2) ==
    [st EXCEPT !.total = IF separate(w, st.body, sprite1, sprite2, "none", TRUE).pair.ret
                         THEN 1 ELSE 0]

\* what follows a separate that returned r when a processCallback that was
\* consulted called arcade.overlap first
CalledAfter(w, st, collideCallback, processCallback, r) ==
    Called(IF r.pair.consulted /\ processCallback \in Nesting
           THEN overlapNested(w, st, NestedObjects[1], NestedObjects[2])
           ELSE st,
           collideCallback, r)

\* the body of the if in collideSpriteVsSprite and collideSpriteVsGroup:
\* separate, then the callback and _total++
SeparateAndCall(w, st, i, j, collideCallback, processCallback, overlapOnly) ==
    CalledAfter(w, st, collideCallback, processCallback,
                separate(w, st.body, i, j, Answer(processCallback), overlapOnly))

\* collideSpriteVsSprite; every sprite of the model has a body
collideSpriteVsSprite(w, st, sprite1, sprite2, collideCallback, processCallback, overlapOnly) ==
    SeparateAndCall(w, st, sprite1, sprite2, collideCallback, processCallback,
                    overlapOnly)

RECURSIVE VsChildren(_, _, _, _, _, _, _, _, _)

\* the loop of collideSpriteVsGroup over group.children when the tree is
\* skipped, i counted from 1
VsChildren(w, st, sprs, sprite1, kids, i, collideCallback, processCallback, overlapOnly) ==
    IF i > Len(kids) THEN st
    ELSE VsChildren(w,
            IF sprs[kids[i]].exists
            THEN collideSpriteVsSprite(w, st, sprite1, kids[i], collideCallback,
                                       processCallback, overlapOnly)
            ELSE st,
            sprs, sprite1, kids, i + 1, collideCallback, processCallback, overlapOnly)

RECURSIVE Populate(_, _, _, _, _)

\* octree.populate(group): the bodies of the existing children are inserted
Populate(o, sprs, bs, kids, i) ==
    IF i > Len(kids) THEN o
    ELSE Populate(IF sprs[kids[i]].exists
                  THEN Insert(o, <<>>, kids[i], [b \in DOMAIN bs |-> BodyCube(bs[b])])
                  ELSE o,
                  sprs, bs, kids, i + 1)

RECURSIVE VsPotentials(_, _, _, _, _, _, _, _)

\* the loop of collideSpriteVsGroup over this._potentials, i counted from 1
VsPotentials(w, st, sprite1, potentials, i, collideCallback, processCallback, overlapOnly) ==
    IF i > Len(potentials) THEN st
    ELSE VsPotentials(w,
            SeparateAndCall(w, st, sprite1, potentials[i], collideCallback,
                            processCallback, overlapOnly),
            sprite1, potentials, i + 1, collideCallback, processCallback, overlapOnly)

\* collideSpriteVsGroup (useQuadTree is false)
collideSpriteVsGroup(w, st, sprs, sprite1, group, collideCallback, processCallback, overlapOnly) ==
    IF Len(group.children) = 0 THEN st
    ELSE IF st.body[sprite1].skipTree \/ w.skipTree
    THEN VsChildren(w, st, sprs, sprite1, group.children, 1, collideCallback,
                    processCallback, overlapOnly)
    ELSE LET o == Populate(NewOctree(w.maxObjects, w.maxLevels), sprs, st.body,
                           group.children, 1)
             potentials == IF o.overflow THEN <<>>
                           ELSE Retrieve(o.nodes, <<>>, BodyCube(st.body[sprite1]))
         IN  VsPotentials(w, [st EXCEPT !.octree = o], sprite1, potentials, 1,
                          collideCallback, processCallback, overlapOnly)

RECURSIVE VsSelf(_, _, _, _, _, _, _, _, _)

\* the two loops of collideGroupVsSelf, i and j counted from 1; j runs one
\* past the last child, where group.children[j] is undefined
VsSelf(w, st, sprs, kids, i, j, collideCallback, processCallback, overlapOnly) ==
    IF i > Len(kids) THEN st
    ELSE IF j > Len(kids) + 1
    THEN VsSelf(w, st, sprs, kids, i + 1, i + 2, collideCallback, processCallback,
                overlapOnly)
    ELSE VsSelf(w,
            IF j <= Len(kids) /\ sprs[kids[i]].exists /\ sprs[kids[j]].exists
            THEN collideSpriteVsSprite(w, [st EXCEPT !.read = @ \cup {i - 1, j - 1}],
                                       kids[i], kids[j], collideCallback,
                                       processCallback, overlapOnly)
            ELSE [st EXCEPT !.read = @ \cup {i - 1, j - 1}],
            sprs, kids, i, j + 1, collideCallback, processCallback, overlapOnly)

\* collideGroupVsSelf
collideGroupVsSelf(w, st, sprs, group, collideCallback, processCallback, overlapOnly) ==
    IF Len(group.children) = 0 THEN st
    ELSE VsSelf(w, st, sprs, group.children, 1, 2, collideCallback, processCallback,
                overlapOnly)

RECURSIVE VsGroup(_, _, _, _, _, _, _, _, _)

\* the loop of collideGroupVsGroup over group1.children, i counted from 1
VsGroup(w, st, sprs, kids, i, group2, collideCallback, processCallback, overlapOnly) ==
    IF i > Len(kids) THEN st
    ELSE VsGroup(w,
            IF sprs[kids[i]].exists
            THEN collideSpriteVsGroup(w, st, sprs, kids[i], group2, collideCallback,
                                      processCallback, overlapOnly)
            ELSE st,
            sprs, kids, i + 1, group2, collideCallback, processCallback, overlapOnly)

\* collideGroupVsGroup
collideGroupVsGroup(w, st, sprs, group1, group2, collideCallback, processCallback, overlapOnly) ==
    IF Len(group1.children) = 0 \/ Len(group2.children) = 0 THEN st
    ELSE VsGroup(w, st, sprs, group1.children, 1, group2, collideCallback,
                 processCallback, overlapOnly)

\* object.exists; a group exists
Exists(sprs, object) ==
    IF object.type = "ISOSPRITE" THEN sprs[object.id].exists ELSE TRUE

\* collideHandler
collideHandler(w, st, sprs, object1, object2, collideCallback, processCallback, overlapOnly) ==
    IF object2.type = "null" /\ object1.type = "GROUP"
    THEN collideGroupVsSelf(w, st, sprs, object1, collideCallback, processCallback,
                            overlapOnly)
    ELSE IF object1.type # "null" /\ object2.type # "null"
            /\ Exists(sprs, object1) /\ Exists(sprs, object2)
    THEN IF object1.type = "ISOSPRITE"
         THEN IF object2.type = "ISOSPRITE"
              THEN collideSpriteVsSprite(w, st, object1.id, object2.id,
                                         collideCallback, processCallback, overlapOnly)
              ELSE IF object2.type = "GROUP"
              THEN collideSpriteVsGroup(w, st, sprs, object1.id, object2,
                                        collideCallback, processCallback, overlapOnly)
              ELSE st
         ELSE IF object1.type = "GROUP"
         THEN IF object2.type = "ISOSPRITE"
              THEN collideSpriteVsGroup(w, st, sprs, object2.id, object1,
                                        collideCallback, processCallback, overlapOnly)
              ELSE IF object2.type = "GROUP"
              THEN collideGroupVsGroup(w, st, sprs, object1, object2,
                                       collideCallback, processCallback, overlapOnly)
              ELSE st
         ELSE st
    ELSE st

RECURSIVE VsArray(_, _, _, _, _, _, _, _, _)

\* the loop of collide and overlap over an array object2, i counted from 1
VsArray(w, st, sprs, object1, items, i, collideCallback, processCallback, overlapOnly) ==
    IF i > Len(items) THEN st
    ELSE VsArray(w,
            collideHandler(w, st, sprs, object1, items[i], collideCallback,
                           processCallback, overlapOnly),
            sprs, object1, items, i + 1, collideCallback, processCallback, overlapOnly)

\* collide (overlapOnly false) and overlap (overlapOnly true): the state the
\* call leaves; it returns total > 0
collide(w, bs, oct, sprs, object1, object2, collideCallback, processCallback, overlapOnly) ==
    IF object2.type = "ARRAY"
    THEN VsArray(w, Working(bs, oct), sprs, object1, object2.items, 1,
                 collideCallback, processCallback, overlapOnly)
    ELSE collideHandler(w, Working(bs, oct), sprs, object1, object2,
                        collideCallback, processCallback, overlapOnly)

----------------------------------------------------------------------------
(* The calls of a game: preUpdate, collide, overlap, postUpdate *)

\* The record of the last call
NoCall ==
    [op |-> "none", who |-> 0, shape |-> <<>>, overlapOnly |-> FALSE, pairs |-> <<>>,
     total |-> 0, seq |-> 0, read |-> {}]

NoSteps == [b \in BodyIds |-> [pre |-> 0, post |-> 0]]

\* A sprite whose body is a cube of the given side when its anchor is 0.5
CubeSprite(iso, side) == NewSprite(iso, 2 * side, 2 * side, [x |-> 1, y |-> 1])

Plus(p, q) == Point3(p.x + q.x, p.y + q.y, p.z + q.z)

Times(k, p) == Point3(k * p.x, k * p.y, k * p.z)

\* the step of a preUpdate of sprite b
PreUpdated(b) ==
    /\ bodies' = [bodies EXCEPT ![b] = preUpdate(world, sprite[b], bodies[b])]
    /\ step' = [step EXCEPT ![b] = [pre |-> @.pre + 1, post |-> 0]]
    /\ call' = [NoCall EXCEPT !.op = "preUpdate", !.who = b, !.seq = call.seq]
    /\ UNCHANGED <<sprite, world, game, octreeVars, sortVars, geomVars>>

\* body.preUpdate() of sprite b
DoPreUpdate(b) ==
    /\ step[b].pre < MaxTicks
    /\ PreUpdated(b)

\* body.preUpdate() of sprite b as the stage calls it frame after frame:
\* that of a later frame follows the postUpdate of the frame before
DoPreUpdateOfFrame(b) ==
    /\ step[b].pre < MaxFrames
    /\ step[b].pre > 0 => step[b].post > 0
    /\ PreUpdated(b)

\* the step of a postUpdate of sprite b that returned r
PostUpdated(b, r) ==
    /\ bodies' = [bodies EXCEPT ![b] = r.body]
    /\ sprite' = [sprite EXCEPT ![b] = r.sprite]
    /\ step' = [step EXCEPT ![b].post = IF @ < 2 THEN @ + 1 ELSE @]
    /\ call' = [NoCall EXCEPT !.op = "postUpdate", !.who = b, !.seq = call.seq]
    /\ UNCHANGED <<world, game, octreeVars, sortVars, geomVars>>

\* body.postUpdate() of sprite b, which the stage calls after the preUpdate
\* of the frame, and which a game may call again
DoPostUpdate(b) ==
    /\ step[b].pre > 0
    /\ PostUpdated(b, postUpdate(sprite[b], bodies[b]))

\* a call the game makes in its update: the bodies it names had their
\* preUpdate and not yet their postUpdate
Updated(ids) == \A b \in ids : step[b].pre > 0 /\ step[b].post = 0

\* the step of a collide or overlap that left r
Collided(object1, object2, overlapOnly, r) ==
    /\ r.exact
    /\ bodies' = r.body
    /\ octree' = r.octree
    /\ call' = [op |-> IF overlapOnly THEN "overlap" ELSE "collide", who |-> 0,
                shape |-> <<object1.type, object2.type>>,
                overlapOnly |-> overlapOnly, pairs |-> r.pairs,
                total |-> r.total, seq |-> call.seq + 1, read |-> r.read]
    /\ UNCHANGED <<sprite, world, game, step, cubes, retrieved, sortVars, geomVars>>

\* game.physics.isoArcade.collide(object1, object2, callback, process) and
\* overlap(object1, object2, callback, process)
DoCollide(object1, object2, overlapOnly) ==
    /\ call.seq < MaxCalls
    /\ Updated(BodyIds)
    /\ Collided(object1, object2, overlapOnly,
                collide(world, bodies, octree, sprite, object1, object2, TRUE,
                        game.processCallback, overlapOnly))

\* the step of a call op on the bodies i and j that left r and the record pair
Separation(op, overlapOnly, r, pair) ==
    /\ r.exact
    /\ bodies' = r.body
    /\ call' = [op |-> op, who |-> 0, shape |-> <<>>, overlapOnly |-> overlapOnly,
                pairs |-> <<pair>>, total |-> 0, seq |-> call.seq + 1, read |-> {}]
    /\ UNCHANGED <<sprite, world, game, step, octreeVars, sortVars, geomVars>>

\* the step of arcade.separate that left r
Separating(overlapOnly, r) == Separation("separate", overlapOnly, r, r.pair)

\* arcade.separate(body1, body2, process, context, overlapOnly)
DoSeparate(i, j, overlapOnly) ==
    /\ call.seq < MaxSeparations
    /\ Updated({i, j})
    /\ Separating(overlapOnly,
                  separate(world, bodies, i, j, game.processCallback, overlapOnly))

\* the step of arcade.separateX, separateY or separateZ that returned r
SeparatingAxis(ax, i, j, overlapOnly, r) ==
    Separation("separate" \o ax.name, overlapOnly, r,
               Pair(i, j, bodies, FALSE, "none", <<Attempt(ax, bodies, r, i, j)>>,
                    r.ret, r.body))

\* arcade.separateX, separateY or separateZ(body1, body2, overlapOnly)
DoSeparateAxis(ax, i, j, overlapOnly) ==
    /\ call.seq < MaxSeparations
    /\ Updated({i, j})
    /\ SeparatingAxis(ax, i, j, overlapOnly,
                      separateAxis(world, bodies, i, j, overlapOnly, ax))

DoSeparateX(i, j, overlapOnly) == DoSeparateAxis(AxisX, i, j, overlapOnly)

DoSeparateY(i, j, overlapOnly) == DoSeparateAxis(AxisY, i, j, overlapOnly)

DoSeparateZ(i, j, overlapOnly) == DoSeparateAxis(AxisZ, i, j, overlapOnly)

\* Nothing of the physics has been set up
PhysIdle ==
    /\ sprite = [b \in BodyIds |-> CubeSprite(Zero3, 2 * Unit)]
    /\ bodies = [b \in BodyIds |-> NewBody(CubeSprite(Zero3, 2 * Unit))]
    /\ world = NewArcade
    /\ game = [processCallback |-> "none"]
    /\ step = NoSteps
    /\ call = NoCall

----------------------------------------------------------------------------
(* Two bodies and the narrow phase *)

\* Where the first sprite stands, and a place away from everything
At1 == Point3(Unit, Unit, Unit)

Far == Point3(5 * Unit, 5 * Unit, 5 * Unit)

\* The second sprite's place relative to the first, in units
Offsets ==
    { Point3(1, 0, 0), Point3(0, 1, 0), Point3(0, 0, 1), Point3(4, 0, 0),
      Point3(0, 0, -1), Point3(3, 0, 5) }

\* The velocities of the first and of the second body, in units a step
Velocities1 ==
    { Point3(0, 0, 0), Point3(1, 0, 0), Point3(-1, 0, 0), Point3(0, 1, 0),
      Point3(0, -1, 0), Point3(0, 0, 1), Point3(0, 0, -1) }

Velocities2 == { Point3(0, 0, 0), Point3(1, 0, 0), Point3(-1, 0, 0) }

\* What else the game sets on the pair
Variants ==
    { "plain", "bounce", "forceXY", "gravityX", "customX1", "customY1", "customZ1",
      "customZ2", "noFrontX1", "disabled2", "still2", "process" }

\* the fields the game sets on body b of a pair
SetUp(b0, b, v, immovable, variant) ==
    [b0 EXCEPT
       !.velocity = Times(Unit, v),
       !.immovable = immovable,
       !.bounce = IF variant = "bounce" THEN Point3(1, 1, 1) ELSE @,
       !.customSeparateX = (variant = "customX1" /\ b = 1),
       !.customSeparateY = (variant = "customY1" /\ b = 1),
       !.customSeparateZ = (variant = "customZ1" /\ b = 1)
                            \/ (variant = "customZ2" /\ b = 2),
       !.checkCollision.frontX = ~(variant = "noFrontX1" /\ b = 1),
       !.enable = ~(variant = "disabled2" /\ b = 2),
       !.moves = ~(variant = "still2" /\ b = 2)]

InitSeparate ==
    \E side1 \in {2 * Unit, 6 * Unit}, off \in Offsets,
       v1 \in Velocities1, v2 \in Velocities2,
       immovable1 \in BOOLEAN, immovable2 \in BOOLEAN, variant \in Variants :
        LET sprs == [b \in BodyIds |->
                       IF b = 1 THEN CubeSprite(At1, side1)
                       ELSE IF b = 2 THEN CubeSprite(Plus(At1, Times(Unit, off)), 2 * Unit)
                       ELSE CubeSprite(Far, 2 * Unit)]
        IN  /\ sprite = sprs
            /\ bodies = [b \in BodyIds |->
                         IF b = 1 THEN SetUp(NewBody(sprs[b]), b, v1, immovable1, variant)
                         ELSE IF b = 2
                         THEN SetUp(NewBody(sprs[b]), b, v2, immovable2, variant)
                         ELSE NewBody(sprs[b])]
            /\ world = [NewArcade EXCEPT
                          !.forceXY = (variant = "forceXY"),
                          !.gravity = IF variant = "gravityX"
                                      THEN Point3(Unit, 0, 0) ELSE @]
            /\ game = [processCallback |->
                         IF variant = "process" THEN "true" ELSE "none"]
            /\ step = NoSteps
            /\ call = NoCall

NextSeparate ==
    \/ \E b \in {1, 2} : DoPreUpdate(b)
    \/ \E i, j \in {1, 2}, overlapOnly \in BOOLEAN :
          i # j /\ DoSeparate(i, j, overlapOnly)
    \/ \E i, j \in {1, 2}, overlapOnly \in BOOLEAN :
          i # j /\ DoSeparateX(i, j, overlapOnly)
    \/ \E i, j \in {1, 2}, overlapOnly \in BOOLEAN :
          i # j /\ DoSeparateY(i, j, overlapOnly)
    \/ \E i, j \in {1, 2}, overlapOnly \in BOOLEAN :
          i # j /\ DoSeparateZ(i, j, overlapOnly)

----------------------------------------------------------------------------
(* Three sprites, and the calls of a game on them *)

\* What a processCallback of the game returns, "none" when it gives none
ProcessCallbacks == {"none", "true", "false", "undefined"}

\* The second sprite overlaps the first along x, the third stands on both,
\* any other is away from them
Places ==
    [b \in BodyIds |->
        IF b = 1 THEN At1
        ELSE IF b = 2 THEN Plus(At1, Point3(Unit, 0, 0))
        ELSE IF b = 3 THEN Plus(At1, Point3(0, 0, Unit))
        ELSE Far]

\* The velocity of the first body, in units a step
ArcadeVelocities == { Point3(1, 0, 0), Point3(0, 0, 1) }

InitArcade ==
    \E v1 \in ArcadeVelocities, disabled \in 0..NBodies, immovable2 \in BOOLEAN,
       skipTree \in BOOLEAN, exists3 \in BOOLEAN, processCallback \in ProcessCallbacks :
        LET sprs == [b \in BodyIds |->
                       [CubeSprite(Places[b], 2 * Unit) EXCEPT
                          !.exists = (b # 3 \/ exists3)]]
        IN  /\ sprite = sprs
            /\ bodies = [b \in BodyIds |->
                           [NewBody(sprs[b]) EXCEPT
                              !.velocity = IF b = 1 THEN Times(Unit, v1) ELSE @,
                              !.immovable = (b = 2 /\ immovable2),
                              !.enable = (b # disabled)]]
            /\ world = [NewArcade EXCEPT !.skipTree = skipTree]
            /\ game = [processCallback |-> processCallback]
            /\ step = NoSteps
            /\ call = NoCall

NextArcade ==
    \/ \E b \in BodyIds : DoPreUpdate(b)
    \/ \E b \in BodyIds : DoPostUpdate(b)
    \/ \E overlapOnly \in BOOLEAN : DoCollide(Sprite(1), Sprite(2), overlapOnly)
    \/ \E overlapOnly \in BOOLEAN : DoCollide(Sprite(1), Group(<<2, 3>>), overlapOnly)
    \/ \E overlapOnly \in BOOLEAN : DoCollide(Group(<<2, 3>>), Sprite(1), overlapOnly)
    \/ \E overlapOnly \in BOOLEAN :
          DoCollide(Group(<<1>>), Group(<<2, 3>>), overlapOnly)
    \/ \E overlapOnly \in BOOLEAN : DoCollide(Group(<<1, 2, 3>>), NoObject, overlapOnly)
    \/ \E overlapOnly \in BOOLEAN :
          DoCollide(Sprite(1), Array(<<Sprite(2), Group(<<3>>)>>), overlapOnly)

----------------------------------------------------------------------------
(* Three sprites and a processCallback that calls overlap *)

InitNested ==
    \E v1 \in ArcadeVelocities, disabled \in 0..NBodies, skipTree \in BOOLEAN,
       processCallback \in Nesting :
        LET sprs == [b \in BodyIds |-> CubeSprite(Places[b], 2 * Unit)]
        IN  /\ sprite = sprs
            /\ bodies = [b \in BodyIds |->
                           [NewBody(sprs[b]) EXCEPT
                              !.velocity = IF b = 1 THEN Times(Unit, v1) ELSE @,
                              !.enable = (b # disabled)]]
            /\ world = [NewArcade EXCEPT !.skipTree = skipTree]
            /\ game = [processCallback |-> processCallback]
            /\ step = NoSteps
            /\ call = NoCall

NextNested ==
    \/ \E b \in BodyIds : DoPreUpdate(b)
    \/ \E overlapOnly \in BOOLEAN : DoCollide(Sprite(1), Sprite(2), overlapOnly)
    \/ \E overlapOnly \in BOOLEAN : DoCollide(Sprite(1), Group(<<2, 3>>), overlapOnly)
    \/ \E overlapOnly \in BOOLEAN : DoCollide(Group(<<1, 2, 3>>), NoObject, overlapOnly)

----------------------------------------------------------------------------
(* Two bodies over the frames of the stage *)

\* The anchors of the sprites, in halves: 0, 0.5 and 1
FrameAnchors == {0, 1, 2}

\* The offsets of the first body
FrameOffsets == { Zero3, Point3(Unit, 0, -Unit) }

FrameOffsets2 == { Point3(1, 0, 0), Point3(0, 0, 1), Point3(4, 0, 0) }

FrameVelocities2 == { Point3(0, 0, 0), Point3(-1, 0, 0) }

InitFrames ==
    \E anchor \in FrameAnchors, offset \in FrameOffsets, off \in FrameOffsets2,
       v1 \in Velocities1, v2 \in FrameVelocities2, immovable2 \in BOOLEAN :
        LET sprs == [b \in BodyIds |->
                       [CubeSprite(IF b = 1 THEN At1
                                   ELSE IF b = 2 THEN Plus(At1, Times(Unit, off))
                                   ELSE Far, 2 * Unit)
                        EXCEPT !.anchor = [x |-> anchor, y |-> anchor]]]
        IN  /\ sprite = sprs
            /\ bodies = [b \in BodyIds |->
                           [NewBody(sprs[b]) EXCEPT
                              !.velocity = IF b = 1 THEN Times(Unit, v1)
                                           ELSE IF b = 2 THEN Times(Unit, v2) ELSE @,
                              !.offset = IF b = 1 THEN offset ELSE @,
                              !.immovable = (b = 2 /\ immovable2)]]
            /\ world = NewArcade
            /\ game = [processCallback |-> "none"]
            /\ step = NoSteps
            /\ call = NoCall

NextFrames ==
    \/ \E b \in {1, 2} : DoPreUpdateOfFrame(b)
    \/ DoSeparate(1, 2, FALSE)
    \/ \E b \in {1, 2} : DoPostUpdate(b)

----------------------------------------------------------------------------
(* One body, its size and the scale of its owner *)

\* The widths and heights of the owner's texture, the scales the game gives
\* the owner and the extents it hands to setSize
TextureSizes == { 4 * Unit, 3 * Unit }

Scales == {1, 2}

Sizes == { Unit, 3 * Unit, 2 * Unit + 1 }

InitSize ==
    \E width \in TextureSizes, height \in TextureSizes, v \in {0, 1} :
        /\ sprite = [b \in BodyIds |->
                       IF b = 1 THEN NewSprite(At1, width, width + height, [x |-> 1, y |-> 1])
                       ELSE CubeSprite(Zero3, 2 * Unit)]
        /\ bodies = [b \in BodyIds |->
                       IF b = 1
                       THEN [NewBody(NewSprite(At1, width, width + height,
                                               [x |-> 1, y |-> 1]))
                             EXCEPT !.velocity = Point3(v * Unit, 0, 0)]
                       ELSE NewBody(CubeSprite(Zero3, 2 * Unit))]
        /\ world = NewArcade
        /\ game = [processCallback |-> "none"]
        /\ step = NoSteps
        /\ call = NoCall

\* sprite.scale.setTo(k) on the owner of body b: the width and the height of
\* the owner are those of its texture times the scale
DoSetScale(b, k) ==
    /\ sprite[b].scale.x # k
    /\ sprite' = [sprite EXCEPT
                    ![b].width = (@ \div sprite[b].scale.x) * k,
                    ![b].height = (@ \div sprite[b].scale.y) * k,
                    ![b].scale = [x |-> k, y |-> k]]
    /\ call' = [NoCall EXCEPT !.op = "setScale", !.who = b, !.seq = call.seq]
    /\ UNCHANGED <<bodies, world, game, step, octreeVars, sortVars, geomVars>>

\* body.setSize(widthX, widthY, height) of sprite b
DoSetSize(b, widthX, widthY, height) ==
    /\ bodies' = [bodies EXCEPT ![b] = setSize(bodies[b], widthX, widthY, height)]
    /\ call' = [NoCall EXCEPT !.op = "setSize", !.who = b, !.seq = call.seq]
    /\ UNCHANGED <<sprite, world, game, step, octreeVars, sortVars, geomVars>>

NextSize ==
    \/ \E k \in Scales : DoSetScale(1, k)
    \/ \E widthX \in Sizes, height \in Sizes : DoSetSize(1, widthX, widthX, height)
    \/ DoPreUpdateOfFrame(1)
    \/ DoPostUpdate(1)

----------------------------------------------------------------------------
(* A sprite against a group, with and without the Octree *)

\* Where the sprite and the two children of the group stand: the children
\* near the sprite; one child in another octant of the world; both children
\* at one place in the far corner of the world, the sprite over them
Layouts ==
    { <<At1, Plus(At1, Point3(Unit, 0, 0)), Plus(At1, Point3(0, 0, Unit))>>,
      <<At1, Point3(5 * Unit, 5 * Unit, 5 * Unit), Plus(At1, Point3(0, 0, Unit))>>,
      <<Point3(6 * Unit, 6 * Unit, 6 * Unit),
        Point3(7 * Unit + 1, 7 * Unit + 1, 7 * Unit + 1),
        Point3(7 * Unit + 1, 7 * Unit + 1, 7 * Unit + 1)>> }

\* The side of the cube of body b in a layout
LayoutSide(layout, b) == IF b # 1 /\ layout[2] = layout[3] THEN Unit ELSE 2 * Unit

\* The maxObjects and maxLevels the game gives the world
TreeLimits == { <<10, 4>>, <<1, 4>>, <<1, 1>> }

InitBroad ==
    \E layout \in Layouts, v1 \in ArcadeVelocities, disabled \in 0..NBodies,
       skipTree \in BOOLEAN, exists3 \in BOOLEAN, limits \in TreeLimits :
        LET sprs == [b \in BodyIds |->
                       [CubeSprite(layout[b], LayoutSide(layout, b)) EXCEPT
                          !.exists = (b # 3 \/ exists3)]]
        IN  /\ sprite = sprs
            /\ bodies = [b \in BodyIds |->
                           [NewBody(sprs[b]) EXCEPT
                              !.velocity = IF b = 1 THEN Times(Unit, v1) ELSE @,
                              !.enable = (b # disabled)]]
            /\ world = [NewArcade EXCEPT !.skipTree = skipTree,
                                         !.maxObjects = limits[1],
                                         !.maxLevels = limits[2]]
            /\ game = [processCallback |-> "none"]
            /\ step = NoSteps
            /\ call = NoCall

NextBroad ==
    \/ \E b \in BodyIds : DoPreUpdate(b)
    \/ DoCollide(Sprite(1), Group(<<2, 3>>), TRUE)
    \/ DoCollide(Group(<<2, 3>>), Sprite(1), TRUE)

----------------------------------------------------------------------------
(* One body and its motion *)

\* What the game sets on each axis of the body, in units: the velocity, the
\* acceleration, the drag and the largest velocity (0 is a value a game can
\* set as well), and the gravity of the world and of the body
MotionVelocities == {-3, -1, 0, 1, 3}

MotionAccelerations == {-1, 0, 2}

MotionDrags == {0, 1, 2}

MotionMaxima == {0, 2, 10000}

MotionGravities == {-1, 0, 2}

InitMotion ==
    \E v \in MotionVelocities, acceleration \in MotionAccelerations,
       drag \in MotionDrags, max \in MotionMaxima, g \in MotionGravities,
       allowGravity \in BOOLEAN :
        /\ sprite = [b \in BodyIds |-> CubeSprite(Zero3, 2 * Unit)]
        /\ bodies = [b \in BodyIds |->
                     IF b = 1
                     THEN [NewBody(CubeSprite(Zero3, 2 * Unit)) EXCEPT
                             !.velocity = Times(Unit, Point3(v, -v, v)),
                             !.acceleration = Times(Unit, Point3(acceleration, acceleration, 0)),
                             !.drag = Times(Unit, Point3(drag, 0, drag)),
                             !.maxVelocity = Times(Unit, Point3(max, max, max)),
                             !.gravity = Times(Unit, Point3(0, g, 0)),
                             !.allowGravity = allowGravity]
                     ELSE NewBody(CubeSprite(Zero3, 2 * Unit))]
        /\ world = [NewArcade EXCEPT !.gravity = Times(Unit, Point3(g, 0, -g))]
        /\ game = [processCallback |-> "none"]
        /\ step = NoSteps
        /\ call = NoCall

\* arcade.updateMotion(body) of sprite b
DoUpdateMotion(b) ==
    /\ call.seq < MaxMotions
    /\ bodies' = [bodies EXCEPT ![b] = updateMotion(world, bodies[b])]
    /\ call' = [NoCall EXCEPT !.op = "updateMotion", !.who = b, !.seq = call.seq + 1]
    /\ UNCHANGED <<sprite, world, game, step, octreeVars, sortVars, geomVars>>

NextMotion == DoUpdateMotion(1)

----------------------------------------------------------------------------
(* One body at the bounds of the world *)

\* Where the sprite stands on each axis: flush with the lower bound, inside,
\* and flush with the upper bound
WorldPlaces == {0, 3 * Unit, WorldSize - 2 * Unit}

WorldVelocities ==
    Velocities1 \cup { Point3(1, 1, 1), Point3(-1, -1, -1), Point3(-1, 1, 0) }

\* What else the game sets: a bounce of 1, gravity, a world without floor,
\* a body that does not collide with the bounds, a body that does not move
WorldVariants == {"plain", "bounce", "gravity", "noFloor", "free", "still"}

InitWorld ==
    \E x \in WorldPlaces, y \in WorldPlaces, z \in WorldPlaces,
       v \in WorldVelocities, variant \in WorldVariants :
        LET sprs == [b \in BodyIds |->
                       IF b = 1 THEN CubeSprite(Point3(x, y, z), 2 * Unit)
                       ELSE CubeSprite(Zero3, 2 * Unit)]
        IN  /\ sprite = sprs
            /\ bodies = [b \in BodyIds |->
                         IF b = 1
                         THEN [NewBody(sprs[b]) EXCEPT
                                 !.velocity = Times(Unit, v),
                                 !.bounce = IF variant = "bounce"
                                            THEN Point3(1, 1, 1) ELSE @,
                                 !.collideWorldBounds = (variant # "free"),
                                 !.moves = (variant # "still")]
                         ELSE NewBody(sprs[b])]
            /\ world = [NewArcade EXCEPT
                          !.gravity = IF variant = "gravity"
                                      THEN Point3(0, 0, -Unit) ELSE @,
                          !.checkCollision.down = (variant # "noFloor")]
            /\ game = [processCallback |-> "none"]
            /\ step = NoSteps
            /\ call = NoCall

NextWorld ==
    \/ DoPreUpdate(1)
    \/ DoPostUpdate(1)

----------------------------------------------------------------------------
(* Cube *)

\* new Cube(x, y, z, widthX, widthY, height): the fields it keeps
NewCube(x, y, z, widthX, widthY, height) ==
    [x |-> x, y |-> y, z |-> z, widthX |-> widthX, widthY |-> widthY,
     height |-> height]

\* What a Cube answers when read: its fields and its frontX, frontY and top
\* getters.  It has no property named right or back.
CubeProperties(c) == MkCube(c.x, c.y, c.z, c.widthX, c.widthY, c.height)

\* What a Body answers when read as a box: the x, y, z, top, frontX, right,
\* frontY and bottom getters and the extents.  It has no property named back.
BodyProperties(b) ==
    [x |-> b.position.x, y |-> b.position.y, z |-> b.position.z,
     widthX |-> b.widthX, widthY |-> b.widthY, height |-> b.height,
     top |-> top(b), frontX |-> frontX(b), right |-> b.position.x + b.widthX,
     frontY |-> frontY(b), bottom |-> b.position.y + b.widthY]

\* v <= a[p] as JavaScript evaluates it: false when a has no property p
LessEqProperty(v, a, p) == p \in DOMAIN a /\ v <= a[p]

\* Cube.contains(a, x, y, z) of the copy that reads a.right and a.back
containsRightBack(a, x, y, z) ==
    IF a.widthX <= 0 \/ a.widthY <= 0 \/ a.height <= 0 THEN FALSE
    ELSE x >= a.x /\ LessEqProperty(x, a, "right")
         /\ y >= a.y /\ LessEqProperty(y, a, "back")
         /\ z >= a.z /\ LessEqProperty(z, a, "top")

\* Cube.contains(a, x, y, z) of the copy that reads a.frontX and a.frontY
contains(a, x, y, z) ==
    IF a.widthX <= 0 \/ a.widthY <= 0 \/ a.height <= 0 THEN FALSE
    ELSE x >= a.x /\ LessEqProperty(x, a, "frontX")
         /\ y >= a.y /\ LessEqProperty(y, a, "frontY")
         /\ z >= a.z /\ LessEqProperty(z, a, "top")

\* The two copies of Cube the repository holds
CubeCopies == {"frontXY", "rightBack"}

\* Cube.contains of the copy that is loaded
CubeContains(copy, a, x, y, z) ==
    IF copy = "rightBack" THEN containsRightBack(a, x, y, z)
    ELSE contains(a, x, y, z)

\* body.hitTest(x, y, z)
hitTest(copy, b, x, y, z) == CubeContains(copy, BodyProperties(b), x, y, z)

\* cube.bottom = value
setBottom(c, value) ==
    [c EXCEPT !.height = IF value >= c.z + c.height THEN 0
                         ELSE c.z + c.height - value,
              !.z = value]

\* cube.top = value
setTop(c, value) ==
    [c EXCEPT !.height = IF value <= c.z THEN 0 ELSE value - c.z]

\* cube.backX = value that moves the origin and leaves the extent alone
setBackXKeepsWidth(c, value) == [c EXCEPT !.x = value]

\* cube.backX = value
setBackX(c, value) ==
    [c EXCEPT !.widthX = IF value >= c.x + c.widthX THEN 0
                         ELSE c.x + c.widthX - value,
              !.x = value]

\* cube.backY = value
setBackY(c, value) ==
    [c EXCEPT !.widthY = IF value >= c.y + c.widthY THEN 0
                         ELSE c.y + c.widthY - value,
              !.y = value]

\* cube.frontX = value
setFrontX(c, value) ==
    [c EXCEPT !.widthX = IF value <= c.x THEN 0 ELSE value - c.x]

\* cube.frontY = value
setFrontY(c, value) ==
    [c EXCEPT !.widthY = IF value <= c.y THEN 0 ELSE value - c.y]

Edges == {"bottom", "top", "backX", "backY", "frontX", "frontY"}

\* cube[edge] = value
SetEdge(c, edge, value) ==
    CASE edge = "bottom" -> setBottom(c, value)
      [] edge = "top" -> setTop(c, value)
      [] edge = "backX" -> setBackX(c, value)
      [] edge = "backY" -> setBackY(c, value)
      [] edge = "frontX" -> setFrontX(c, value)
      [] edge = "frontY" -> setFrontY(c, value)

(* A Cube, and the calls made on it *)

NoProbe == [op |-> "none"]

\* The coordinates a call is given
EdgeValues == 1..MaxEdge

PointValues == 0..(MaxEdge + 1)

\* The points body.hitTest is asked about: below, on and above each bound
\* of one axis, and between the bounds of the other two or on them
HitValues == {-1, 0, 2 * Unit, 2 * Unit + 1}

HitPoints ==
    {Point3(v, w, w) : v \in HitValues, w \in {0, Unit}}
    \cup {Point3(w, v, w) : v \in HitValues, w \in {0, Unit}}
    \cup {Point3(w, w, v) : v \in HitValues, w \in {0, Unit}}

\* The boxes Cube.intersects is asked about: apart from, touching and
\* overlapping the unit box at (1, 1, 1), with extents of every sign
Others ==
    {NewCube(x, 1, z, widthX, 1, height) :
        x \in {0, 2, 3}, z \in {1, 2}, widthX \in {-1, 0, 1}, height \in {0, 1}}

CubeIdle == solid = NewCube(0, 0, 0, 0, 0, 0)

\* A unit box, a box without width, and a box of negative depth
InitCube ==
    /\ solid \in {NewCube(1, 1, 1, 1, 1, 1), NewCube(1, 1, 1, 0, 1, 1),
                 NewCube(1, 1, 1, 1, -1, 1)}
    /\ probe = NoProbe

\* Cube.contains(solid, x, y, z)
DoContains(copy, x, y, z) ==
    /\ probe' = [op |-> "contains", copy |-> copy, a |-> solid,
                 x |-> x, y |-> y, z |-> z,
                 ret |-> CubeContains(copy, CubeProperties(solid), x, y, z)]
    /\ UNCHANGED <<solid, projector, octreeVars, sortVars, physVars>>

\* bodies[1].hitTest(x, y, z)
DoHitTest(copy, point) ==
    /\ probe' = [op |-> "hitTest", copy |-> copy, a |-> BodyCube(bodies[1]),
                 x |-> point.x, y |-> point.y, z |-> point.z,
                 ret |-> hitTest(copy, bodies[1], point.x, point.y, point.z)]
    /\ UNCHANGED <<solid, projector, octreeVars, sortVars, physVars>>

\* Cube.intersects(solid, b), and Cube.intersects(b, solid)
DoIntersects(b) ==
    /\ probe' = [op |-> "intersects", a |-> solid, b |-> b,
                 ret |-> CubeIntersects(CubeProperties(solid), CubeProperties(b)),
                 swapped |-> CubeIntersects(CubeProperties(b), CubeProperties(solid))]
    /\ UNCHANGED <<solid, projector, octreeVars, sortVars, physVars>>

\* cube[edge] = value
DoSetEdge(edge, value) ==
    /\ solid' = SetEdge(solid, edge, value)
    /\ probe' = [op |-> "set", edge |-> edge, value |-> value, a |-> solid]
    /\ UNCHANGED <<projector, octreeVars, sortVars, physVars>>

NextCube ==
    \/ \E copy \in CubeCopies : \E x, y, z \in PointValues : DoContains(copy, x, y, z)
    \/ \E copy \in CubeCopies : \E point \in HitPoints : DoHitTest(copy, point)
    \/ \E b \in Others : DoIntersects(b)
    \/ \E edge \in Edges : \E value \in EdgeValues : DoSetEdge(edge, value)

----------------------------------------------------------------------------
(* Projector *)

\* Fractions n / d with d > 0, in lowest terms: the numbers of the Projector
RECURSIVE GCD(_, _)
GCD(m, n) == IF n = 0 THEN m ELSE GCD(n, m % n)

Q(n, d) ==
    LET g == GCD(Abs(n), Abs(d))
        s == IF d < 0 THEN -1 ELSE 1
    IN  [n |-> s * (n \div g), d |-> s * (d \div g)]

I(n) == [n |-> n, d |-> 1]

QAdd(a, b) == Q(a.n * b.d + b.n * a.d, a.d * b.d)

QNeg(a) == [n |-> -a.n, d |-> a.d]

QSub(a, b) == QAdd(a, QNeg(b))

QMul(a, b) == Q(a.n * b.n, a.d * b.d)

QDiv(a, b) == Q(a.n * b.d, a.d * b.n)

\* The projection angles: those in (0, pi / 2) whose cosine and sine are the
\* fractions a / c and b / c of a right triangle with sides a, b, c
Angles == {<<4, 3, 5>>, <<3, 4, 5>>, <<12, 5, 13>>}

\* Math.cos(angle), Math.sin(angle)
Cos(angle) == Q(angle[1], angle[3])

Sin(angle) == Q(angle[2], angle[3])

\* projector.projectionAngle = value
setProjectionAngle(pr, value) ==
    IF value = pr.projectionAngle THEN pr
    ELSE [pr EXCEPT !.projectionAngle = value,
                    !.transform = <<Cos(value), Sin(value)>>]

\* new Projector(game, projectionAngle), with the game.world it reads
NewProjector(gameWorld, projectionAngle) ==
    setProjectionAngle([world |-> gameWorld, transform |-> <<>>,
                        projectionAngle |-> <<>>,
                        anchor |-> [x |-> Q(1, 2), y |-> I(0)]],
                       projectionAngle)

\* projector.project(point3)
project(pr, point3) ==
    [x |-> QAdd(QMul(I(point3.x - point3.y), pr.transform[1]),
                QMul(I(pr.world.width), pr.anchor.x)),
     y |-> QAdd(QSub(QMul(I(point3.x + point3.y), pr.transform[2]), I(point3.z)),
                QMul(I(pr.world.height), pr.anchor.y))]

\* projector.unproject(point, undefined, z) that leaves z out of the screen y
unprojectFromGround(pr, point, z) ==
    LET x == QSub(QSub(point.x, I(pr.world.x)),
                  QMul(I(pr.world.width), pr.anchor.x))
        y == QSub(QSub(point.y, I(pr.world.y)),
                  QMul(I(pr.world.height), pr.anchor.y))
        u == QDiv(x, QMul(I(2), pr.transform[1]))
        v == QDiv(y, QMul(I(2), pr.transform[2]))
    IN  [x |-> QAdd(u, v), y |-> QAdd(QNeg(u), v), z |-> I(z)]

\* projector.unproject(point, undefined, z)
unproject(pr, point, z) ==
    LET x == QSub(QSub(point.x, I(pr.world.x)),
                  QMul(I(pr.world.width), pr.anchor.x))
        y == QAdd(QSub(QSub(point.y, I(pr.world.y)),
                       QMul(I(pr.world.height), pr.anchor.y)), I(z))
        u == QDiv(x, QMul(I(2), pr.transform[1]))
        v == QDiv(y, QMul(I(2), pr.transform[2]))
    IN  [x |-> QAdd(u, v), y |-> QAdd(QNeg(u), v), z |-> I(z)]

(* A Projector, and the calls made on it *)

\* The position and the size of game.world
GameWorlds ==
    {[x |-> x, y |-> y, width |-> 8, height |-> 6] : x \in {0, -2}, y \in {0, 3}}

Anchors == {[x |-> Q(1, 2), y |-> I(0)], [x |-> I(0), y |-> I(0)],
            [x |-> I(1), y |-> Q(1, 2)]}

Coordinates == 0..MaxCoordinate

ProjectorIdle ==
    projector = NewProjector([x |-> 0, y |-> 0, width |-> 8, height |-> 6],
                             <<4, 3, 5>>)

InitProjector ==
    /\ \E gameWorld \in GameWorlds : \E angle \in Angles :
          projector = NewProjector(gameWorld, angle)
    /\ probe = NoProbe
    /\ solid = NewCube(0, 0, 0, 0, 0, 0)

\* projector.anchor.setTo(anchor.x, anchor.y)
DoSetAnchor(anchor) ==
    /\ projector' = [projector EXCEPT !.anchor = anchor]
    /\ probe' = NoProbe
    /\ UNCHANGED <<solid, octreeVars, sortVars, physVars>>

\* projector.projectionAngle = angle
DoSetProjectionAngle(angle) ==
    /\ projector' = setProjectionAngle(projector, angle)
    /\ probe' = NoProbe
    /\ UNCHANGED <<solid, octreeVars, sortVars, physVars>>

\* out = projector.project(point3)
DoProject(point3) ==
    /\ probe' = [op |-> "project", point3 |-> point3,
                 out |-> project(projector, point3)]
    /\ UNCHANGED <<solid, projector, octreeVars, sortVars, physVars>>

\* projector.unproject(out, undefined, z) of the point project returned
DoUnproject(z) ==
    /\ probe.op = "project"
    /\ probe' = [op |-> "unproject", point3 |-> probe.point3, point |-> probe.out,
                 z |-> z, out |-> unproject(projector, probe.out, z)]
    /\ UNCHANGED <<solid, projector, octreeVars, sortVars, physVars>>

NextProjector ==
    \/ \E anchor \in Anchors : DoSetAnchor(anchor)
    \/ \E angle \in Angles : DoSetProjectionAngle(angle)
    \/ \E x, y, z \in Coordinates : DoProject(Point3(x, y, z))
    \/ \E z \in Coordinates : DoUnproject(z)

----------------------------------------------------------------------------
(* Specifications *)

vars == <<octreeVars, sortVars, physVars, geomVars>>

GeomIdle == CubeIdle /\ ProjectorIdle /\ probe = NoProbe

InitOctreeSpec == InitOctree /\ SortIdle /\ PhysIdle /\ GeomIdle

SpecOctree == InitOctreeSpec /\ [][NextOctree]_vars

InitSortSpec == InitSort /\ OctreeIdle /\ PhysIdle /\ GeomIdle

SpecSort == InitSortSpec /\ [][NextSort]_vars

InitSeparateSpec == InitSeparate /\ OctreeIdle /\ SortIdle /\ GeomIdle

SpecSeparate == InitSeparateSpec /\ [][NextSeparate]_vars

InitArcadeSpec == InitArcade /\ OctreeIdle /\ SortIdle /\ GeomIdle

SpecArcade == InitArcadeSpec /\ [][NextArcade]_vars

InitNestedSpec == InitNested /\ OctreeIdle /\ SortIdle /\ GeomIdle

SpecNested == InitNestedSpec /\ [][NextNested]_vars

InitFramesSpec == InitFrames /\ OctreeIdle /\ SortIdle /\ GeomIdle

SpecFrames == InitFramesSpec /\ [][NextFrames]_vars

InitSizeSpec == InitSize /\ OctreeIdle /\ SortIdle /\ GeomIdle

SpecSize == InitSizeSpec /\ [][NextSize]_vars

InitBroadSpec == InitBroad /\ OctreeIdle /\ SortIdle /\ GeomIdle

SpecBroad == InitBroadSpec /\ [][NextBroad]_vars

InitMotionSpec == InitMotion /\ OctreeIdle /\ SortIdle /\ GeomIdle

SpecMotion == InitMotionSpec /\ [][NextMotion]_vars

InitWorldSpec == InitWorld /\ OctreeIdle /\ SortIdle /\ GeomIdle

SpecWorld == InitWorldSpec /\ [][NextWorld]_vars

InitCubeSpec == InitCube /\ ProjectorIdle /\ OctreeIdle /\ SortIdle /\ PhysIdle

SpecCube == InitCubeSpec /\ [][NextCube]_vars

InitProjectorSpec == InitProjector /\ OctreeIdle /\ SortIdle /\ PhysIdle

SpecProjector == InitProjectorSpec /\ [][NextProjector]_vars

----------------------------------------------------------------------------
(* Claims about the Octree *)

Range(s) == {s[i] : i \in 1..Len(s)}

\* C1: after clear/reset and any inserts, retrieve(Q) returns every inserted
\* box that Q contains or intersects (no false negatives)
C1_NoFalseNegatives ==
    retrieved.done =>
        \A k \in 1..Len(cubes) :
            (CubeContainsCube(cubes[k], retrieved.query)
               \/ CubeIntersects(retrieved.query, cubes[k]))
            => k \in Range(retrieved.result)

\* C1 witness: the root has split, a box that went down into a child lies
\* inside a different query box, and the retrieve returned it
C1_Witness ==
    /\ retrieved.done
    /\ HasNodes(octree.nodes, <<>>)
    /\ \E k \in 1..Len(cubes) :
          /\ cubes[k] # retrieved.query
          /\ CubeContainsCube(cubes[k], retrieved.query)
          /\ k \notin Range(octree.nodes[<<>>].objects)
          /\ k \in Range(retrieved.result)

\* One step of the behind relation composed with itself
Compose(R, S) ==
    {p \in SpriteIds \X SpriteIds :
        \E b \in SpriteIds : <<p[1], b>> \in R /\ <<b, p[2]>> \in S}

RECURSIVE Closure(_, _)

Closure(R, n) == IF n = 0 THEN R ELSE Closure(R \cup Compose(R, R), n - 1)

Acyclic(R) == \A s \in SpriteIds : <<s, s>> \notin Closure(R, NSprites)

\* C2: when the behind relation recorded by topologicalSort is acyclic, every
\* sprite recorded as behind another has a strictly smaller key (isoDepth)
\* than the sprite it is behind.
C2_BehindHasSmallerKey ==
    (sorted.done /\ Acyclic(sorted.behind)) =>
        \A p \in sorted.behind : isoSprite[p[2]].isoDepth < isoSprite[p[1]].isoDepth

\* a sort after a move, over an acyclic relation with a chain of three
\* sprites, that gave the first child the largest key
C2_Witness ==
    /\ sorted.done
    /\ sorted.moves > 0
    /\ Acyclic(sorted.behind)
    /\ \E a, b, c \in SpriteIds :
          /\ <<a, b>> \in sorted.behind
          /\ <<b, c>> \in sorted.behind
          /\ a < b /\ b < c
          /\ isoSprite[a].isoDepth = NSprites - 1

----------------------------------------------------------------------------
(* Claims about the narrow phase *)

\* the separate calls recorded for the last call
Pairs == Range(call.pairs)

AxisOf(name) == IF name = "X" THEN AxisX ELSE IF name = "Y" THEN AxisY ELSE AxisZ

\* the bound an overlap is compared with, from the bodies as they were
Bound(a) ==
    deltaAbs(a.before[1], AxisOf(a.axis).pos) + deltaAbs(a.before[2], AxisOf(a.axis).pos)
        + world.OVERLAP_BIAS

\* how far body k was moved on the axis of the attempt
Moved(a, k) ==
    a.after[k].position[AxisOf(a.axis).pos] - a.before[k].position[AxisOf(a.axis).pos]

\* the hulls overlapped by more than the bound
TooDeep(a) ==
    /\ intersects(a.before[1], a.before[2])
    /\ Abs(Computed(a.before[1], a.before[2], AxisOf(a.axis))) > Bound(a)

NoCustom(b) == ~b.customSeparateX /\ ~b.customSeparateY /\ ~b.customSeparateZ

\* C3: for two bodies that are both immovable, separate and separateX,
\* separateY, separateZ change neither body's position nor its velocity,
\* whatever their overlap: every field of both bodies stays as it was, the
\* three axis functions return false, and so does separate unless it was
\* only asked whether the bodies overlap.
C3_ImmovablePairStays ==
    \A p \in Pairs :
        (p.entry[1].immovable /\ p.entry[2].immovable) =>
            /\ call.overlapOnly \/ ~p.ret
            /\ p.exit = p.entry
            /\ \A a \in Range(p.attempts) : ~a.ret /\ a.after = a.before

\* separate tried all three axes on two immovable bodies that overlap and
\* whose deltas differ on an axis where the overlap is within the bound
C3_Witness ==
    /\ call.op = "separate"
    /\ \E p \in Pairs :
          /\ p.entry[1].immovable /\ p.entry[2].immovable
          /\ intersects(p.entry[1], p.entry[2])
          /\ Len(p.attempts) = 3
          /\ \E ax \in {AxisX, AxisZ} :
                /\ delta(p.entry[1], ax.pos) # delta(p.entry[2], ax.pos)
                /\ ~Rejected(world, p.entry[1], p.entry[2], ax)

\* the bound on an axis from the bodies as separate was entered with them
EntryBound(p, ax) ==
    deltaAbs(p.entry[1], ax.pos) + deltaAbs(p.entry[2], ax.pos) + world.OVERLAP_BIAS

\* how far the whole call moved body k on an axis
MovedInCall(p, k, ax) == p.exit[k].position[ax.pos] - p.entry[k].position[ax.pos]

\* the overlap on an axis was larger than the bound when the call was entered
TooDeepAtEntry(p, ax) ==
    /\ intersects(p.entry[1], p.entry[2])
    /\ Abs(Computed(p.entry[1], p.entry[2], ax)) > EntryBound(p, ax)

\* the separation on z that succeeded in the call carried body k along x and
\* y with the immovable body m, by what m moved in the step
Carried(p, k, ax) ==
    LET m == 3 - k
    IN  /\ ax.pos \in {"x", "y"}
        /\ \E a \in Range(p.attempts) : a.axis = "Z" /\ a.ret
        /\ ~p.entry[k].immovable /\ p.entry[m].immovable /\ p.entry[m].moves
        /\ MovedInCall(p, k, ax) = p.entry[m].position[ax.pos] - p.entry[m].prev[ax.pos]

\* C4 as stated: in one call of separate no body moves on an axis by more
\* than deltaAbs(body1) + deltaAbs(body2) + OVERLAP_BIAS, and on an axis
\* whose overlap is larger than that neither body is moved.
C4_AsStated ==
    \A p \in Pairs : \A ax \in {AxisX, AxisY, AxisZ} : \A k \in {1, 2} :
        /\ Abs(MovedInCall(p, k, ax)) <= EntryBound(p, ax)
        /\ TooDeepAtEntry(p, ax) => MovedInCall(p, k, ax) = 0

\* C4: in one call of separate no body moves on an axis by more than
\* deltaAbs(body1) + deltaAbs(body2) + OVERLAP_BIAS. An overlap larger than
\* that is rejected: separateX, separateY or separateZ returns false and
\* moves neither body, and over the whole call a body moves on such an axis
\* only when the separation on z carries it along with a moving immovable
\* body.
C4_CorrectionWithinBound ==
    \A p \in Pairs :
        /\ \A a \in Range(p.attempts) :
              /\ Abs(Moved(a, 1)) <= Bound(a)
              /\ Abs(Moved(a, 2)) <= Bound(a)
              /\ TooDeep(a) =>
                    /\ ~a.ret
                    /\ a.after[1].position = a.before[1].position
                    /\ a.after[2].position = a.before[2].position
        /\ \A ax \in {AxisX, AxisY, AxisZ} : \A k \in {1, 2} :
              /\ Abs(MovedInCall(p, k, ax)) <= EntryBound(p, ax)
              /\ TooDeepAtEntry(p, ax) =>
                    MovedInCall(p, k, ax) = 0 \/ Carried(p, k, ax)

\* a separate call rejected the overlap on x, which was larger than the
\* bound, then separated the bodies on z, and that carried a body along x
C4_Witness ==
    /\ call.op = "separate"
    /\ \E p \in Pairs : \E k \in {1, 2} :
          /\ TooDeepAtEntry(p, AxisX)
          /\ \E a \in Range(p.attempts) : a.axis = "X" /\ a.rejected /\ TooDeep(a)
          /\ Carried(p, k, AxisX)
          /\ MovedInCall(p, k, AxisX) # 0

\* the case of C5: a call that is to separate (overlapOnly false) two
\* enabled intersecting bodies, not both immovable, whose deltas on the axis
\* differ, whose overlap is within the bound, whose checkCollision flags of
\* the two facing faces are set, neither body having a custom separation
Separable(a) ==
    LET ax == AxisOf(a.axis)
        b1 == a.before[1]
        b2 == a.before[2]
    IN  /\ ~call.overlapOnly
        /\ b1.enable /\ b2.enable
        /\ intersects(b1, b2)
        /\ ~(b1.immovable /\ b2.immovable)
        /\ delta(b1, ax.pos) # delta(b2, ax.pos)
        /\ Abs(Computed(b1, b2, ax)) <= Bound(a)
        /\ IF delta(b1, ax.pos) > delta(b2, ax.pos)
           THEN b1.checkCollision[ax.fwd] /\ b2.checkCollision[ax.bwd]
           ELSE b1.checkCollision[ax.bwd] /\ b2.checkCollision[ax.fwd]
        /\ NoCustom(b1) /\ NoCustom(b2)

MetImmovable(a, k, m) ==
    /\ a.ret
    /\ ~call.overlapOnly
    /\ NoCustom(a.before[1]) /\ NoCustom(a.before[2])
    /\ ~a.before[k].immovable
    /\ a.before[m].immovable
    /\ a.before[m].velocity[AxisOf(a.axis).pos] = 0

\* C6: when a movable body collides with an immovable body that has no
\* velocity on the axis, the movable body's velocity on the axis becomes
\* minus its velocity before times its bounce, and the immovable body's
\* position and velocity stay as they were.
C6_ReboundFromImmovable ==
    \A p \in Pairs : \A a \in Range(p.attempts) :
        \A k \in {1, 2} :
            LET m == 3 - k
                pos == AxisOf(a.axis).pos
            IN  MetImmovable(a, k, m) =>
                  /\ a.after[k].velocity[pos]
                        = -(a.before[k].velocity[pos] * a.before[k].bounce[pos])
                  /\ a.after[m].position = a.before[m].position
                  /\ a.after[m].velocity = a.before[m].velocity

\* a body with a bounce of 1 came back from an immovable body with its
\* velocity reversed
C6_Witness ==
    \E p \in Pairs : \E a \in Range(p.attempts) :
        /\ MetImmovable(a, 1, 2)
        /\ a.before[1].bounce[AxisOf(a.axis).pos] = 1
        /\ a.before[1].velocity[AxisOf(a.axis).pos] # 0
        /\ a.after[1].velocity[AxisOf(a.axis).pos]
              = -a.before[1].velocity[AxisOf(a.axis).pos]

----------------------------------------------------------------------------
(* Claims about collide, overlap, preUpdate and postUpdate *)

\* C7: overlap, whatever it is given (sprite and sprite, sprite and group,
\* group and sprite, group and group, a group alone, an array as second
\* argument) and with or without the octree, changes no field of any body
\* (so neither position, velocity, touching nor overlapX/Y/Z) and no sprite.
C7_OverlapChangesNoBody ==
    [][(call'.op = "overlap" /\ call'.seq # call.seq)
          => (bodies' = bodies /\ sprite' = sprite)]_vars

\* overlap of a group with a group went through the octree and reported a
\* pair that collide would have separated on x or z
C7_Witness ==
    /\ call.op = "overlap"
    /\ call.shape = <<"GROUP", "GROUP">>
    /\ ~world.skipTree
    /\ call.total > 0
    /\ \E p \in Pairs :
          /\ p.ret /\ p.called
          /\ \E ax \in {AxisX, AxisZ} :
                /\ delta(p.entry[1], ax.pos) # delta(p.entry[2], ax.pos)
                /\ ~Rejected(world, p.entry[1], p.entry[2], ax)

\* C8: when a processCallback is given to collide or overlap, it is
\* consulted for an intersecting pair before anything on either body has
\* changed, and the pair is separated and its callback called only if the
\* processCallback returned true; otherwise neither body changes and the
\* callback is not called.
C8_AsStated ==
    \A p \in Pairs :
        p.consulted =>
            /\ p.atProcess = p.entry
            /\ (p.ret \/ p.called \/ p.exit # p.entry) => p.answer = "true"

\* C9: once a body had a postUpdate since its last preUpdate, a further
\* postUpdate changes neither a body nor a sprite.
C9_PostUpdateOncePerTick ==
    [][\A b \in BodyIds :
          (call'.op = "postUpdate" /\ call'.who = b /\ step[b].post >= 1)
              => (bodies' = bodies /\ sprite' = sprite)]_vars

\* the moving body had its preUpdate and two postUpdate calls, and the
\* first of them moved its sprite
C9_Witness ==
    /\ call.op = "postUpdate"
    /\ call.who = 1
    /\ bodies[1].enable
    /\ step[1].pre > 0
    /\ step[1].post = 2
    /\ sprite[1].iso # Places[1]

\* C10: a body whose enable is false, and its sprite, are changed by no
\* preUpdate, postUpdate, collide or overlap, and for a pair that contains
\* it no processCallback is consulted and no collide or overlap callback is
\* called.
C10_DisabledBodyUntouched ==
    /\ [](\A p \in Pairs :
            (~p.entry[1].enable \/ ~p.entry[2].enable)
                => (~p.consulted /\ ~p.called /\ ~p.ret))
    /\ [][\A b \in BodyIds :
            ~bodies[b].enable
                => (bodies'[b] = bodies[b] /\ sprite'[b] = sprite[b])]_vars

\* the moving body is disabled and overlaps the second; it went through
\* preUpdate, a collide or overlap that names it, and postUpdate
C10_Witness ==
    /\ call.op = "postUpdate"
    /\ call.who = 1
    /\ ~bodies[1].enable
    /\ bodies[1].velocity # Zero3
    /\ intersects(bodies[1], bodies[2])
    /\ call.seq > 0
    /\ step[1].pre > 0 /\ step[1].post > 0

\* The node above the node at path p
Parent(p) == SubSeq(p, 1, Len(p) - 1)

\* C16: in an Octree built by insert calls no node lies deeper than
\* maxLevels below the root: a node splits only while its level is below
\* the root's maxLevels, and every child made by split carries its parent's
\* maxObjects and maxLevels and has level = parent level + 1
C16_AsStated ==
    \A p \in DOMAIN octree.nodes :
        /\ Len(p) <= octree.nodes[<<>>].maxLevels
        /\ p # <<>>
           => /\ octree.nodes[Parent(p)].level < octree.nodes[<<>>].maxLevels
              /\ octree.nodes[p].maxObjects = octree.nodes[Parent(p)].maxObjects
              /\ octree.nodes[p].maxLevels = octree.nodes[Parent(p)].maxLevels
              /\ octree.nodes[p].level = octree.nodes[Parent(p)].level + 1

\* The pair of the last call, when that call was arcade.separate
Separate == call.op = "separate"

ThePair == call.pairs[1]

BothImmovable(p) == p.entry[1].immovable /\ p.entry[2].immovable

\* separate finds a body disabled or the boxes apart
TurnedAway(p) ==
    ~p.entry[1].enable \/ ~p.entry[2].enable \/ ~intersects(p.entry[1], p.entry[2])

\* C15, as stated: separate returns false, before processCallback is
\* consulted, whenever both bodies are immovable, whenever either body is
\* disabled and whenever their boxes do not intersect, in collide mode and
\* in overlap-only mode alike
C15_AsStated ==
    (Separate /\ (BothImmovable(ThePair) \/ TurnedAway(ThePair)))
    => ~ThePair.ret /\ ~ThePair.consulted

\* C15, amended: separate returns false before processCallback is consulted
\* whenever either body is disabled or the boxes do not intersect, in both
\* modes.  Two enabled immovable bodies whose boxes intersect are not turned
\* away: processCallback is consulted if there is one, and unless it
\* answers false the call returns true in overlap-only mode and false in
\* collide mode; in all these cases no body is changed.
C15_TurnedAwayBeforeProcess ==
    Separate
    => /\ TurnedAway(ThePair) => ~ThePair.ret /\ ~ThePair.consulted
       /\ (BothImmovable(ThePair) \/ TurnedAway(ThePair))
          => ThePair.exit = ThePair.entry
       /\ (BothImmovable(ThePair) /\ ~TurnedAway(ThePair))
          => /\ ThePair.consulted = (game.processCallback # "none")
             /\ ThePair.ret = (call.overlapOnly /\ game.processCallback # "false")

\* C15 witness: separate was called with a processCallback on two enabled
\* bodies whose boxes lie apart, and returned false without consulting it
C15_Witness ==
    /\ Separate
    /\ game.processCallback # "none"
    /\ ThePair.entry[1].enable /\ ThePair.entry[2].enable
    /\ ~intersects(ThePair.entry[1], ThePair.entry[2])
    /\ ~ThePair.ret /\ ~ThePair.consulted

\* The separateX, separateY and separateZ steps of the last call
Attempts ==
    IF call.op \in {"separate", "separateX", "separateY", "separateZ"}
    THEN Range(call.pairs[1].attempts)
    ELSE {}

\* Either body of the step has customSeparateX, Y or Z set, as the axis of
\* the step is X, Y or Z
Custom(at) ==
    \E k \in 1..2 : at.before[k]["customSeparate" \o at.axis]

\* The step left the position and the velocity of both bodies alone
Untouched(at) ==
    \A k \in 1..2 : /\ at.after[k].position = at.before[k].position
                    /\ at.after[k].velocity = at.before[k].velocity

\* C17: for each axis A, if either body has customSeparateA set, separateA
\* records the overlap and the touching flags and returns true without
\* changing the position or the velocity of either body; the custom flags
\* of the other two axes have no effect on axis A, so that without
\* customSeparateA an overlap that is accepted is separated
C17_AsStated ==
    \A at \in Attempts :
        (at.overlap # 0 /\ ~at.rejected)
        => /\ Custom(at)
              => /\ at.ret
                 /\ Untouched(at)
                 /\ \A k \in 1..2 : /\ at.after[k]["overlap" \o at.axis] = at.overlap
                                    /\ ~at.after[k].touching.none
           /\ (~Custom(at) /\ ~call.overlapOnly) => ~Untouched(at)

\* The body of a separateZ step whose top face meets the other body: the
\* first when the overlap is body1.top - body2.z, the second when it is
\* body1.z - body2.top
Lower(at) == IF at.overlap > 0 THEN 1 ELSE 2

Upper(at) == 3 - Lower(at)

\* C18: after separateZ reports a collision the touching flags name the
\* face of each body that is in contact: the lower body, whose top face
\* meets the other, has touching.up set and the upper body, whose bottom
\* face meets it, has touching.down set, the faces being named as in
\* blocked.up and blocked.down against the world bounds
C18_AsStated ==
    \A at \in Attempts :
        (at.axis = "Z" /\ at.ret /\ at.overlap # 0 /\ ~at.rejected)
        => /\ at.after[Lower(at)].touching.up
           /\ at.after[Upper(at)].touching.down

Max(m, n) == IF m >= n THEN m ELSE n

Min(m, n) == IF m <= n THEN m ELSE n

\* What two bodies share on the axis at pos with the extent size: the length
\* of the stretch they both cover, negative when there is a gap between them
Shared(b1, b2, pos, size) ==
    Min(b1.position[pos] + b1[size], b2.position[pos] + b2[size])
      - Max(b1.position[pos], b2.position[pos])

SharedOnAxes(b1, b2) ==
    {Shared(b1, b2, "x", "widthX"), Shared(b1, b2, "y", "widthY"),
     Shared(b1, b2, "z", "height")}

\* The boxes of two bodies have a point in common but no volume: faces,
\* edges or corners touch
Touch(b1, b2) ==
    /\ \A d \in SharedOnAxes(b1, b2) : d >= 0
    /\ \E d \in SharedOnAxes(b1, b2) : d = 0

BodyPairs == {pr \in BodyIds \X BodyIds : pr[1] # pr[2]}

\* C19, as stated: Arcade.intersects(body1, body2) gives the same answer as
\* Cube.intersects on the boxes of the two bodies, for all boxes with
\* positive extents, boxes whose faces exactly touch included
C19_AsStated ==
    \A pr \in BodyPairs :
        intersects(bodies[pr[1]], bodies[pr[2]])
        = CubeIntersects(BodyCube(bodies[pr[1]]), BodyCube(bodies[pr[2]]))

\* C19, amended: the two tests agree on boxes of positive extents except
\* where the boxes touch without sharing volume; there Cube.intersects is
\* true and Arcade.intersects is false.  Arcade.intersects is true exactly
\* when the boxes share volume, Cube.intersects exactly when they share a
\* point.
C19_AgreeUnlessTouching ==
    \A pr \in BodyPairs :
        LET b1 == bodies[pr[1]]
            b2 == bodies[pr[2]]
        IN  /\ intersects(b1, b2) <=> \A d \in SharedOnAxes(b1, b2) : d > 0
            /\ CubeIntersects(BodyCube(b1), BodyCube(b2))
               <=> \A d \in SharedOnAxes(b1, b2) : d >= 0
            /\ Touch(b1, b2)
               <=> (CubeIntersects(BodyCube(b1), BodyCube(b2)) /\ ~intersects(b1, b2))

\* C19 witness: separate has pushed two bodies apart until their faces
\* touch, and both tests have something to say about them
C19_Witness ==
    /\ Separate /\ ThePair.ret /\ ~call.overlapOnly
    /\ Touch(bodies[1], bodies[2])
    /\ ~intersects(bodies[1], bodies[2])
    /\ CubeIntersects(BodyCube(bodies[1]), BodyCube(bodies[2]))

----------------------------------------------------------------------------
(* Claims about the bounds of the world *)

\* The axes of a body: the position's field, the extent, the world's bounds
\* and the flags of the two faces
WorldAxes ==
    { [pos |-> "x", size |-> "widthX", front |-> "frontX", backFace |-> "backX",
       frontFace |-> "frontX"],
      [pos |-> "y", size |-> "widthY", front |-> "frontY", backFace |-> "backY",
       frontFace |-> "frontY"],
      [pos |-> "z", size |-> "height", front |-> "top", backFace |-> "down",
       frontFace |-> "up"] }

\* What preUpdate makes of body b1 when it does not collide with the bounds
Unbounded(b1) ==
    preUpdate(world, sprite[1], [b1 EXCEPT !.collideWorldBounds = FALSE])

\* Body after is in the world on the axis ax, and if its position is not
\* that of the unbounded body free, the flag of the face that met the bound
\* is set and the velocity is that of free times minus the bounce
BoundedOn(ax, free, after) ==
    /\ world.bounds[ax.pos] <= after.position[ax.pos]
    /\ after.position[ax.pos] + after[ax.size] <= world.bounds[ax.front]
    /\ after.position[ax.pos] # free.position[ax.pos]
       => /\ after.velocity[ax.pos] = free.velocity[ax.pos] * (-after.bounce[ax.pos])
          /\ IF free.position[ax.pos] < world.bounds[ax.pos]
             THEN after.blocked[ax.backFace]
             ELSE after.blocked[ax.frontFace]

\* C20: immediately after preUpdate of an enabled body with moves and
\* collideWorldBounds set, all six checkCollision flags of the world true
\* and extents no larger than the world's, the box of the body lies inside
\* the world bounds on all three axes; every axis that was clamped has the
\* matching blocked flag set and its velocity multiplied by minus the bounce
\* of that axis
C20_InsideWorldAfterPreUpdate ==
    [][(/\ step'[1].pre = step[1].pre + 1
        /\ bodies[1].enable /\ bodies[1].moves /\ bodies[1].collideWorldBounds
        /\ \A face \in DOMAIN world.checkCollision : world.checkCollision[face]
        /\ \A ax \in WorldAxes : bodies'[1][ax.size] <= world.bounds[ax.size])
       => \A ax \in WorldAxes : BoundedOn(ax, Unbounded(bodies[1]), bodies'[1])]_vars

\* C20 witness: a body that bounces fell through the floor of the world and
\* preUpdate put it back on the floor, blocked below and moving up
C20_Witness ==
    /\ call.op = "preUpdate" /\ call.who = 1
    /\ bodies[1].collideWorldBounds /\ bodies[1].moves /\ bodies[1].enable
    /\ \A face \in DOMAIN world.checkCollision : world.checkCollision[face]
    /\ bodies[1].bounce.z = 1
    /\ bodies[1].position.z = world.bounds.z
    /\ bodies[1].blocked.down
    /\ bodies[1].velocity.z > 0

----------------------------------------------------------------------------
(* Claims about the order of the axes *)

\* The magnitude of the gravity that acts on the body along the axis a
GravityMagnitude(w, body, a) == Abs(w.gravity[a] + body.gravity[a])

\* The names of the axes in the order that is stated
StatedOrder(w, body1) ==
    IF \/ w.forceXY
       \/ GravityMagnitude(w, body1, "z") < GravityMagnitude(w, body1, "x")
       \/ GravityMagnitude(w, body1, "z") < GravityMagnitude(w, body1, "y")
    THEN <<"X", "Y", "Z">>
    ELSE <<"Z", "X", "Y">>

\* The names of the axes the call tried, in the order it tried them
TriedOrder(p) == [n \in 1..Len(p.attempts) |-> p.attempts[n].axis]

\* The call changed the velocity or a touching flag of a body on the axis
ActedOn(p, ax) ==
    \E k \in 1..2 :
        \/ p.exit[k].velocity[ax.pos] # p.entry[k].velocity[ax.pos]
        \/ p.exit[k].touching[ax.fwd] # p.entry[k].touching[ax.fwd]
        \/ p.exit[k].touching[ax.bwd] # p.entry[k].touching[ax.bwd]

\* The call moved a body on the axis
MovedOn(p, ax) == \E k \in 1..2 : MovedInCall(p, k, ax) # 0

\* The separation on z succeeded in the call
SeparatedOnZ(p) == \E a \in Range(p.attempts) : a.axis = "Z" /\ a.ret

\* The axes whose positions, velocities or touching flags the call changed,
\* a move on x or y in a call that separated on z being the carry
ChangedAxes(p) ==
    { ax \in {AxisX, AxisY, AxisZ} :
        \/ ActedOn(p, ax)
        \/ MovedOn(p, ax) /\ ~(ax.pos \in {"x", "y"} /\ SeparatedOnZ(p)) }

\* C22: separate tries the axes in the order Z, X, Y, or X, Y, Z when
\* forceXY is set or the gravity on z is smaller in magnitude than that on
\* x or on y; it stops at the first axis that returns true, and one call
\* changes the positions, velocities and touching flags of at most one
\* axis, the one that returned true, apart from the carry on x and y of a
\* separation on z
C22_OrderAndFirstSuccess ==
    Separate =>
        LET p == ThePair
            n == Len(p.attempts)
        IN  /\ TriedOrder(p) = SubSeq(StatedOrder(world, p.entry[1]), 1, n)
            /\ \A m \in 1..n : p.attempts[m].ret => m = n
            /\ (n > 0 /\ n < 3) => p.attempts[n].ret
            /\ n > 0 => p.ret = p.attempts[n].ret
            /\ Cardinality(ChangedAxes(p)) <= 1
            /\ \A ax \in ChangedAxes(p) : n > 0 /\ p.attempts[n].ret
                                           /\ p.attempts[n].axis = ax.name

\* C22 witness: with forceXY a call tried x, which returned false, and then
\* y, which returned true and moved a body on y; z was not tried
C22_Witness ==
    /\ Separate
    /\ world.forceXY
    /\ TriedOrder(ThePair) = <<"X", "Y">>
    /\ ~ThePair.attempts[1].ret /\ ThePair.attempts[2].ret
    /\ ChangedAxes(ThePair) = {AxisY}
    /\ MovedOn(ThePair, AxisY)

----------------------------------------------------------------------------
(* Claims about the motion of a body *)

\* The velocity v moved towards zero by d without crossing it
TowardsZero(v, d) == IF v > d THEN v - d ELSE IF v < -d THEN v + d ELSE 0

\* The value v held between -max and max
Clamped(v, max) == IF v > max THEN max ELSE IF v < -max THEN -max ELSE v

\* The reference: gravity of the world and of the body if allowGravity, then
\* the acceleration if there is one and else the drag, then the cap
Reference(w, b, a, max) ==
    LET v1 == IF b.allowGravity
              THEN b.velocity[a] + (w.gravity[a] + b.gravity[a]) * physicsElapsed
              ELSE b.velocity[a]
        v2 == IF b.acceleration[a] # 0
              THEN v1 + b.acceleration[a] * physicsElapsed
              ELSE TowardsZero(v1, b.drag[a] * physicsElapsed)
    IN  Clamped(v2, max)

\* The step is an updateMotion of the first body
MotionUpdated == call'.op = "updateMotion" /\ call'.seq = call.seq + 1

Axes == {"x", "y", "z"}

\* C21, as stated: computeVelocity equals the reference with the cap at the
\* body's maxVelocity of the axis, so that after updateMotion every velocity
\* component has a magnitude of at most that maxVelocity
C21_AsStated ==
    [][MotionUpdated
       => \A a \in Axes :
            /\ bodies'[1].velocity[a]
               = Reference(world, bodies[1], a, bodies[1].maxVelocity[a])
            /\ Abs(bodies'[1].velocity[a]) <= bodies[1].maxVelocity[a]]_vars

\* What computeVelocity does: the reference for a maxVelocity other than 0; a
\* maxVelocity of 0 is taken as not given and the cap is 10000
ReferenceWithDefaultCap ==
    [][MotionUpdated
       => \A a \in Axes :
            LET max == IF bodies[1].maxVelocity[a] = 0 THEN 10000 * Unit
                       ELSE bodies[1].maxVelocity[a]
            IN  /\ bodies'[1].velocity[a] = Reference(world, bodies[1], a, max)
                /\ Abs(bodies'[1].velocity[a]) <= max]_vars

\* A body with acceleration and drag on x was updated; the
\* gravity and the acceleration took it to the cap, which is not 0, and the
\* drag on z brought its velocity there to rest
CappedAndAtRest ==
    /\ call.op = "updateMotion"
    /\ bodies[1].allowGravity /\ world.gravity.x > 0
    /\ bodies[1].acceleration.x > 0 /\ bodies[1].drag.x > 0
    /\ bodies[1].maxVelocity.x = 2 * Unit
    /\ bodies[1].velocity.x = bodies[1].maxVelocity.x
    /\ bodies[1].velocity.z = 0

----------------------------------------------------------------------------
(* Claims about a group collided with itself *)

\* The children of the group the game hands to collide and overlap alone
Children == <<1, 2, 3>>

\* The last call was a collide or overlap of that group with no second object
SelfCall == call.op \in {"collide", "overlap"} /\ call.shape = <<"GROUP", "null">>

\* The pairs of existing children, the one that comes first in the list first
ExistingPairs ==
    { t \in BodyIds \X BodyIds :
        /\ \E i, j \in 1..Len(Children) : i < j /\ t = <<Children[i], Children[j]>>
        /\ sprite[t[1]].exists /\ sprite[t[2]].exists }

\* The pairs the call tested, in the order it tested them
Tested == [n \in 1..Len(call.pairs) |-> <<call.pairs[n].b1, call.pairs[n].b2>>]

\* What collideGroupVsSelf does: every pair of existing children is tested
\* once, no child against itself
EachPairOnce ==
    SelfCall => /\ Range(Tested) = ExistingPairs
                /\ Len(Tested) = Cardinality(ExistingPairs)
                /\ \A t \in Range(Tested) : t[1] # t[2]

\* C23, as stated: a collide or overlap of a single group tests every pair
\* of distinct existing children exactly once, tests no child against
\* itself and reads no index outside the list of children
C23_AsStated ==
    SelfCall => /\ Range(Tested) = ExistingPairs
                /\ Len(Tested) = Cardinality(ExistingPairs)
                /\ \A t \in Range(Tested) : t[1] # t[2]
                /\ call.read \subseteq 0..(Len(Children) - 1)

----------------------------------------------------------------------------
(* Claims about what collide and overlap return *)

\* The last call was a collide or an overlap
Collide == call.op \in {"collide", "overlap"}

\* The call returned true: _total > 0
Returned == call.total > 0

\* A pair of the call collided or overlapped, having passed the
\* processCallback
SomePairCollided == \E p \in Pairs : p.ret

\* C24, as stated: a collide or overlap returns true exactly when at least
\* one of its pairs collided or overlapped and passed the processCallback,
\* also when a callback called during the call calls overlap itself
C24_AsStated == Collide => (Returned <=> SomePairCollided)

----------------------------------------------------------------------------
(* Claims about the end of topologicalSort *)

\* The keys the children hold
Keys == { isoSprite[children[i]].isoDepth : i \in 1..Len(children) }

\* Every entry of every isoSpritesBehind array is null
BehindCleared ==
    \A s \in SpriteIds :
        \A k \in 1..Len(isoSprite[s].isoSpritesBehind) :
            isoSprite[s].isoSpritesBehind[k] = Null

\* C25: topologicalSort comes to an end, visits every child exactly once
\* and gives the n children the keys 0..n-1, one each, with cycles in the
\* behind relation and on repeated calls as well: visitNode is entered once
\* for every child and once for every pair of the behind relation of this
\* call, and every isoSpritesBehind entry is null when the call returns
C25_SortEndsWithAllKeys ==
    sorted.done =>
        /\ Keys = 0..(Len(children) - 1)
        /\ \A i, j \in 1..Len(children) :
              i # j => isoSprite[children[i]].isoDepth # isoSprite[children[j]].isoDepth
        /\ \A s \in SpriteIds : isoSprite[s].isoVisitedFlag = TRUE
        /\ BehindCleared
        /\ sorted.calls = Len(children) + Cardinality(sorted.behind)

\* C25 witness: a second sort, after a move, over a behind relation with a
\* cycle, a sprite having fewer sprites behind it than its array has entries
C25_Witness ==
    /\ sorted.done
    /\ sorted.sorts = 2
    /\ sorted.moves > 0
    /\ ~Acyclic(sorted.behind)
    /\ \E s \in SpriteIds :
          Len(isoSprite[s].isoSpritesBehind)
          > Cardinality({p \in sorted.behind : p[1] = s})

----------------------------------------------------------------------------
(* Claims about the end of Octree.insert *)

\* C26, as stated: Octree.insert comes to an end for every sequence of
\* boxes and every maxObjects and maxLevels of 1 or more, boxes at one place
\* strictly inside an octant included: the nesting of insert, split and the
\* redistribution never exhausts the call stack
C26_AsStated == ~octree.overflow

----------------------------------------------------------------------------
(* Claims about a body and its owner over the frames *)

\* An enabled body that moves and has no deltaMax
Carrying(b) == b.enable /\ b.moves /\ b.deltaMax = Zero3

Minus(p, q) == Point3(p.x - q.x, p.y - q.y, p.z - q.z)

\* The step is a postUpdate, or a preUpdate, of the sprite b
PostUpdateOf(b) == call'.op = "postUpdate" /\ call'.who = b

PreUpdateOf(b) == call'.op = "preUpdate" /\ call'.who = b

\* C27: for an enabled body that moves and has no deltaMax, and whose owner
\* the game leaves alone, at the end of every postUpdate the position is
\* the owner's iso position plus the anchor and offset term of preUpdate and
\* prev is the position; the first postUpdate of a frame hands the owner
\* the displacement of the frame, position - prev, and a further one hands
\* it nothing; the next preUpdate starts from the position the postUpdate
\* left
C27_PositionFollowsOwner ==
    [][\A b \in {1, 2} :
          Carrying(bodies[b]) =>
            /\ PostUpdateOf(b) =>
                  /\ bodies'[b].position
                     = AnchoredPosition(sprite'[b], bodies'[b], sprite'[b].iso)
                  /\ bodies'[b].prev = bodies'[b].position
                  /\ Minus(sprite'[b].iso, sprite[b].iso)
                     = IF step[b].post = 0
                       THEN Minus(bodies[b].position, bodies[b].prev)
                       ELSE Zero3
            /\ (PreUpdateOf(b) /\ step[b].post > 0) =>
                  /\ bodies'[b].prev = bodies[b].position
                  /\ Minus(bodies'[b].position, bodies'[b].newVelocity)
                     = bodies[b].position]_vars

\* C27 witness: in its second frame a body whose anchor and offset term is
\* not zero was carried by its velocity, after a first frame in which a
\* separation displaced it, and its owner stands where the term puts it
C27_Witness ==
    /\ call.op = "preUpdate" /\ call.who = 1
    /\ step[1].pre = 2
    /\ call.seq = 1
    /\ AnchoredPosition(sprite[1], bodies[1], Zero3) # Zero3
    /\ bodies[1].newVelocity # Zero3
    /\ bodies[1].prev = AnchoredPosition(sprite[1], bodies[1], sprite[1].iso)
    /\ bodies[1].touching.none /\ ~bodies[1].wasTouching.none

----------------------------------------------------------------------------
(* Claims about the half extents of a body *)

\* half is the half of whole, or the half rounded down to a whole number
HalfOf(half, whole) ==
    /\ half <= whole
    /\ half * 2 = whole \/ half = FloorHalf(whole)

\* The center of the body lies inside the box of the body
CenterInside(b) ==
    /\ b.position.x <= b.center.x /\ b.center.x <= frontX(b)
    /\ b.position.y <= b.center.y /\ b.center.y <= frontY(b)
    /\ b.position.z <= b.center.z /\ b.center.z <= top(b)

\* C28, as stated: after any sequence of construction, setSize, changes of
\* the owner's scale, preUpdate and postUpdate the half extents of a body
\* are the halves of its extents and never larger than they, and the center
\* postUpdate computes lies inside the body's box
C28_AsStated ==
    /\ HalfOf(bodies[1].halfWidthX, bodies[1].widthX)
    /\ HalfOf(bodies[1].halfWidthY, bodies[1].widthY)
    /\ HalfOf(bodies[1].halfHeight, bodies[1].height)
    /\ (call.op = "postUpdate" /\ call.who = 1 /\ bodies[1].phase = 2)
       => CenterInside(bodies[1])

\* What the code does: a half extent is the half of its extent, or twice
\* the extent when updateBounds has set it after a change of the scale
HalfOrTwice ==
    \A e \in { <<"halfWidthX", "widthX">>, <<"halfWidthY", "widthY">>,
               <<"halfHeight", "height">> } :
        \/ HalfOf(bodies[1][e[1]], bodies[1][e[2]])
        \/ bodies[1][e[1]] = Floor(bodies[1][e[2]] * 2)

----------------------------------------------------------------------------
(* Claims about touching and wasTouching *)

Directions == {"up", "down", "frontX", "frontY", "backX", "backY"}

\* none is true exactly when no direction is
NoneMeansNoDirection(t) == t.none <=> (\A d \in Directions : ~t[d])

\* C29: in every state of a body touching.none is true exactly when none of
\* the six directions of touching is, and so for wasTouching; a preUpdate
\* of an enabled body copies touching into wasTouching and clears touching
C29_NoneIffNoDirection ==
    [][\A b \in BodyIds :
          /\ NoneMeansNoDirection(bodies[b].touching)
          /\ NoneMeansNoDirection(bodies[b].wasTouching)
          /\ NoneMeansNoDirection(bodies'[b].touching)
          /\ NoneMeansNoDirection(bodies'[b].wasTouching)
          /\ (PreUpdateOf(b) /\ bodies[b].enable)
             => /\ bodies'[b].wasTouching = bodies[b].touching
                /\ bodies'[b].touching.none
                /\ \A d \in Directions : ~bodies'[b].touching[d]]_vars

\* C29 witness: a body that a separation touched in its first frame has had
\* the preUpdate of its second frame: wasTouching holds a direction and
\* touching none
C29_Witness ==
    /\ call.op = "preUpdate" /\ call.who = 1
    /\ step[1].pre = 2
    /\ bodies[1].touching.none
    /\ ~bodies[1].wasTouching.none
    /\ \E d \in Directions : bodies[1].wasTouching[d]

----------------------------------------------------------------------------
(* Claims about the broad phase *)

\* The last call was an overlap of the sprite and the group
OverlapWithGroup ==
    /\ call.op = "overlap"
    /\ call.shape \in { <<"ISOSPRITE", "GROUP">>, <<"GROUP", "ISOSPRITE">> }

\* The children of the group the call reported as overlapping the sprite
Reported == { p.b2 : p \in { q \in Pairs : q.ret } }

\* The existing children of the group with enabled bodies whose boxes
\* intersect the body of the sprite, that body being enabled
Intersecting ==
    { k \in {2, 3} : /\ sprite[k].exists
                     /\ bodies[k].enable /\ bodies[1].enable
                     /\ intersects(bodies[1], bodies[k]) }

\* C30, as stated: an overlap of a sprite and a group reports the same
\* children with the Octree as with skipTree: exactly the existing children
\* with enabled bodies whose boxes intersect the body of the sprite
C30_AsStated == OverlapWithGroup => Reported = Intersecting

\* What the code does: the two ways agree whenever the Octree could be
\* filled
AgreeWhenFilled == (OverlapWithGroup /\ ~octree.overflow) => Reported = Intersecting

----------------------------------------------------------------------------
(* Claims about the Cube *)

\* The point (x, y, z) lies in the closed box a, whose extents are positive
InClosedBox(a, x, y, z) ==
    /\ a.widthX > 0 /\ a.widthY > 0 /\ a.height > 0
    /\ a.x <= x /\ x <= a.x + a.widthX
    /\ a.y <= y /\ y <= a.y + a.widthY
    /\ a.z <= z /\ z <= a.z + a.height

\* C11: Cube.contains(a, x, y, z), and Body.hitTest which delegates to it,
\* is true exactly when all three extents of a are positive and the point
\* lies between the lower and the upper bound on every axis, both bounds
\* inclusive
C11_AsStated ==
    probe.op \in {"contains", "hitTest"}
    => (probe.ret <=> InClosedBox(probe.a, probe.x, probe.y, probe.z))

Flat(a) == a.widthX <= 0 \/ a.widthY <= 0 \/ a.height <= 0

\* C12: Cube.intersects(A, B) equals Cube.intersects(B, A) for all boxes A
\* and B, and it is false whenever an extent of A or of B is zero or negative
C12_IntersectsSymmetric ==
    probe.op = "intersects"
    => /\ probe.ret = probe.swapped
       /\ (Flat(probe.a) \/ Flat(probe.b)) => ~probe.ret

\* C12 witness: two different boxes of positive extents that share no more
\* than a face were found to intersect, in either order
C12_Witness ==
    /\ probe.op = "intersects"
    /\ probe.ret /\ probe.swapped
    /\ probe.a.x + probe.a.widthX = probe.b.x

\* The origin and the extent an edge belongs to, and the sides of the edges
OriginOf(edge) ==
    CASE edge \in {"backX", "frontX"} -> "x"
      [] edge \in {"backY", "frontY"} -> "y"
      [] edge \in {"bottom", "top"} -> "z"

ExtentOf(edge) ==
    CASE edge \in {"backX", "frontX"} -> "widthX"
      [] edge \in {"backY", "frontY"} -> "widthY"
      [] edge \in {"bottom", "top"} -> "height"

FrontEdges == {"frontX", "frontY", "top"}

BackEdges == {"backX", "backY", "bottom"}

NonNegative(c) == c.widthX >= 0 /\ c.widthY >= 0 /\ c.height >= 0

\* The fields of the Cube other than those named in keys are as before the
\* last assignment
OnlyChanged(keys) ==
    \A k \in DOMAIN solid : k \notin keys => solid[k] = probe.a[k]

FrontOf(c, edge) == c[OriginOf(edge)] + c[ExtentOf(edge)]

\* The parts of C14 that do not depend on where a back edge is put
EdgeAssigned ==
    /\ NonNegative(probe.a) => NonNegative(solid)
    /\ probe.edge \in FrontEdges => OnlyChanged({ExtentOf(probe.edge)})
    /\ probe.edge \in BackEdges
       => /\ OnlyChanged({OriginOf(probe.edge), ExtentOf(probe.edge)})
          /\ solid[OriginOf(probe.edge)] = probe.value

\* C14, as stated: on a Cube whose extents are non-negative, an assignment
\* to an edge keeps all extents >= 0; a front edge changes only its extent
\* and never x, y or z; a back edge moves the origin and adjusts the extent
\* so that the matching front edge keeps its value
C14_AsStated ==
    (probe.op = "set" /\ NonNegative(probe.a))
    => /\ EdgeAssigned
       /\ probe.edge \in BackEdges
          => FrontOf(solid, probe.edge) = FrontOf(probe.a, probe.edge)

\* C14, amended: as stated, but a back edge keeps the matching front edge
\* only when it is put at or before it; put beyond the front edge, the
\* extent becomes 0 and the front edge moves to the assigned value
C14_EdgesClamp ==
    probe.op = "set"
    => /\ EdgeAssigned
       /\ probe.edge \in BackEdges
          => IF probe.value <= FrontOf(probe.a, probe.edge)
             THEN FrontOf(solid, probe.edge) = FrontOf(probe.a, probe.edge)
             ELSE /\ solid[ExtentOf(probe.edge)] = 0
                  /\ FrontOf(solid, probe.edge) = probe.value

\* C14 witness: backX was put before the old back edge of a Cube with
\* non-negative extents, which made the Cube wider
C14_Witness ==
    /\ probe.op = "set" /\ probe.edge = "backX"
    /\ NonNegative(probe.a)
    /\ probe.value < probe.a.x
    /\ solid.widthX > probe.a.widthX

----------------------------------------------------------------------------
(* Claims about the Projector *)

\* The last call was unproject, of the point project returned, on the
\* z-plane of the projected point
RoundTrip == probe.op = "unproject" /\ probe.z = probe.point3.z

====
